---- MODULE Spec2Model ----
(***************************************************************************)
(* Model of miniwdl's lint layer: WDL/Walker.py (the traversal framework   *)
(* and the three annotation passes SetParents, MarkCalled, SetReferrers)   *)
(* and WDL/Lint.py (Linter.add, lint, collect and the rules).              *)
(*                                                                         *)
(* The recursive descent of Walker.Base.__call__ is modelled by an         *)
(* explicit continuation stack `stk`: a frame <<"visit", n>> is a pending  *)
(* call self(n), a frame <<"post", n>> is the part of a hook that follows  *)
(* its super().hook(n) descent.  One action executes one frame.            *)
(*                                                                         *)
(* The input is a parsed and type-checked tree.  The source text modelled: *)
(*                                                                         *)
(*  root.wdl (Document D)                                                  *)
(*    1  import "lib.wdl" as lib                  -> Document L            *)
(*    2  import "aux.wdl" as aux   (optional)     -> Document X            *)
(*    3  struct S { ... }                                                  *)
(*    4  task t {                                                          *)
(*    5    input { Int a   File b }                                        *)
(*    6    File f = "s"                                                    *)
(*    7    command { echo ~{a} }                                           *)
(*    8    runtime { docker: "u" }                                         *)
(*    9    output { File o = "out" }                                       *)
(*       }                                                                 *)
(*   11  workflow w {              (optional)                              *)
(*   12    input { Array[Int] xs }                                         *)
(*   13    scatter (x in xs) {                                             *)
(*   14      call t as c1 { input: a = x, b = z }   (a, b: optional)       *)
(*   15      File y = c1.o                                                 *)
(*         }                                                               *)
(*   17    if (true) {                                                     *)
(*   18      call lib.lw as c2 { input: n = y }     (optional)             *)
(*   19      call lib.lw as c3                      (optional)             *)
(*         }                                                               *)
(*   21    String z = "p" + y                                              *)
(*   22    output { File out = c1.o }                                      *)
(*       }                                                                 *)
(*                                                                         *)
(*  lib.wdl (Document L)                                                   *)
(*    1  import "more.wdl" as more                -> Document M            *)
(*    2  task lt { input { Int n }  command { } }                          *)
(*    4  workflow lw {                                                     *)
(*    5    input { Int n }                                                 *)
(*    6    call lt as lc { input: n = n }                                  *)
(*    7    Array[String] p = q    Array[String] q = read_lines("s")        *)
(*       }                                                                 *)
(*  more.wdl (Document M):  task mt { command { } }                        *)
(*  aux.wdl  (Document X):  struct XS { ... }                              *)
(*                                                                         *)
(* Rules modelled: IncompleteCall, UnusedImport, ForwardReference          *)
(* (auto-descend, run by Walker.Multi) and FileCoercion (manual-descend).  *)
(*                                                                         *)
(* Specifications:                                                         *)
(*   Spec          lint, collect and client calls on the tree above        *)
(*   WalkSpec      Walker.Base with its default hooks on the tree above    *)
(*   ShellSpec     CommandShellCheck under Walker.Multi, with the          *)
(*                 shellcheck binary absent or present                     *)
(*   DeclSpec      UnusedDeclaration.decl on one declaration               *)
(*   CoercionSpec  the coercion rules' tests on the types of one binding   *)
(***************************************************************************)
EXTENDS Integers, Sequences, FiniteSets, TLC

VARIABLES
    cfg,        \* the parsed tree's optional parts (an input, never changed)
    seed,       \* the process's string-hash seed (PYTHONHASHSEED)
    parent,     \* node -> "unset" | "None" | node     (obj.parent)
    called,     \* node -> BOOLEAN                     (obj.called, absent = FALSE)
    referrers,  \* node -> sequence of Ident nodes     (obj.referrers, absent = <<>>)
    lint,       \* node -> sequence of diagnostics     (obj.lint, absent = <<>>)
    pstack,     \* SetParents._parent_stack (class attribute, shared)
    marking,    \* MarkCalled.marking of the running pass
    phase,      \* "idle" or the walker that is running
    stk,        \* continuation stack of the running walker
    di,         \* descend_imports of the running walker
    walkers,    \* Multi._walkers of the running multiplexer
    log,        \* hook invocations of the current lint run, in order
    out,        \* _Collector.lint / the value collect returned
    err,        \* exception raised by the last operation ("" = none)
    op,         \* the last operation started and its arguments
    ops,        \* number of operations started
    runs,       \* completed lint runs on the current tree
    parses,     \* fresh parses of the source after the first
    manual,     \* lint's manual-descend instances not yet finished
    prev,       \* what the lint run on the previous parse left (for comparison)
    shell       \* the shellcheck binary and CommandShellCheck's use of it

vars == <<cfg, seed, parent, called, referrers, lint, pstack, marking, phase,
          stk, di, walkers, log, out, err, op, ops, runs, parses, manual, prev,
          shell>>

-----------------------------------------------------------------------------
(* Bounds of the model *)

\* operations (lint, collect, client calls) per behaviour
MaxOps == 2
\* fresh parses of the same source after the first
MaxParses == 1
\* calls to the imported workflow lib.lw in the root workflow
MaxSubCalls == 2

-----------------------------------------------------------------------------
(* The tree: the data model of WDL/Tree.py and WDL/Expr.py *)

Kind ==
    [D |-> "Document", L |-> "Document", M |-> "Document", X |-> "Document",
     S |-> "StructTypeDef", XS |-> "StructTypeDef",
     t |-> "Task", lt |-> "Task", mt |-> "Task",
     w |-> "Workflow", lw |-> "Workflow",
     c1 |-> "Call", c2 |-> "Call", c3 |-> "Call", lc |-> "Call",
     sc |-> "Scatter", cd |-> "Conditional",
     t_a |-> "Decl", t_b |-> "Decl", t_f |-> "Decl", t_o |-> "Decl",
     w_xs |-> "Decl", sc_y |-> "Decl", w_z |-> "Decl", w_out |-> "Decl",
     lt_n |-> "Decl", lw_n |-> "Decl", lw_p |-> "Decl", lw_q |-> "Decl",
     t_f_e |-> "Expr", t_cmd |-> "Expr", t_cmd_p |-> "Expr", t_cmd_id |-> "Expr",
     t_rt |-> "Expr", t_o_e |-> "Expr",
     sc_e |-> "Expr", c1_a |-> "Expr", c1_b |-> "Expr", sc_y_e |-> "Expr",
     cd_e |-> "Expr", c2_n |-> "Expr",
     w_z_e |-> "Expr", w_z_e1 |-> "Expr", w_z_e2 |-> "Expr", w_out_e |-> "Expr",
     lt_cmd |-> "Expr", lc_n |-> "Expr", lw_p_e |-> "Expr", lw_q_e |-> "Expr",
     lw_q_e1 |-> "Expr", mt_cmd |-> "Expr",
     g1 |-> "Gather", gg |-> "Gather", gc |-> "Gather"]

Nodes == DOMAIN Kind

Root == "D"

IsExpr(n) == Kind[n] = "Expr"

\* isinstance(obj, Expr.Ident) / Expr.Apply
ExprKind ==
    [t_f_e |-> "String", t_cmd |-> "String", t_cmd_p |-> "Placeholder",
     t_cmd_id |-> "Ident", t_rt |-> "String", t_o_e |-> "String",
     sc_e |-> "Ident", c1_a |-> "Ident", c1_b |-> "Ident", sc_y_e |-> "Ident",
     cd_e |-> "Boolean", c2_n |-> "Ident",
     w_z_e |-> "Apply", w_z_e1 |-> "String", w_z_e2 |-> "Ident",
     w_out_e |-> "Ident",
     lt_cmd |-> "String", lc_n |-> "Ident", lw_p_e |-> "Ident",
     lw_q_e |-> "Apply", lw_q_e1 |-> "String", mt_cmd |-> "String"]

IsIdent(n) == IsExpr(n) /\ ExprKind[n] = "Ident"
IsApply(n) == IsExpr(n) /\ ExprKind[n] = "Apply"

\* Ident.referee and Gather.referee, as the type checker resolved them.
\* The scatter variable x is bound to the Scatter node itself.
Referee ==
    [t_cmd_id |-> "t_a", sc_e |-> "w_xs", c1_a |-> "sc", c1_b |-> "w_z",
     sc_y_e |-> "c1", c2_n |-> "g1", w_z_e2 |-> "gg", w_out_e |-> "gc",
     lc_n |-> "lw_n", lw_p_e |-> "lw_q",
     g1 |-> "sc_y", gg |-> "g1", gc |-> "c1"]

\* SourcePosition (line, column) of the node's start
Pos ==
    [D |-> <<1, 1>>, L |-> <<1, 1>>, M |-> <<1, 1>>, X |-> <<1, 1>>,
     S |-> <<3, 1>>, XS |-> <<1, 1>>,
     t |-> <<4, 1>>, lt |-> <<2, 1>>, mt |-> <<1, 1>>,
     w |-> <<11, 1>>, lw |-> <<4, 1>>,
     c1 |-> <<14, 5>>, c2 |-> <<18, 5>>, c3 |-> <<19, 5>>, lc |-> <<6, 3>>,
     sc |-> <<13, 3>>, cd |-> <<17, 3>>,
     t_a |-> <<5, 11>>, t_b |-> <<5, 19>>, t_f |-> <<6, 3>>, t_o |-> <<9, 12>>,
     w_xs |-> <<12, 11>>, sc_y |-> <<15, 5>>, w_z |-> <<21, 3>>,
     w_out |-> <<22, 12>>,
     lt_n |-> <<2, 19>>, lw_n |-> <<5, 11>>, lw_p |-> <<7, 3>>,
     lw_q |-> <<7, 24>>,
     t_f_e |-> <<6, 12>>, t_cmd |-> <<7, 3>>, t_cmd_p |-> <<7, 18>>,
     t_cmd_id |-> <<7, 20>>, t_rt |-> <<8, 21>>, t_o_e |-> <<9, 21>>,
     sc_e |-> <<13, 17>>, c1_a |-> <<14, 28>>, c1_b |-> <<14, 35>>,
     sc_y_e |-> <<15, 14>>, cd_e |-> <<17, 7>>, c2_n |-> <<18, 36>>,
     w_z_e |-> <<21, 14>>, w_z_e1 |-> <<21, 14>>, w_z_e2 |-> <<21, 20>>,
     w_out_e |-> <<22, 23>>,
     lt_cmd |-> <<2, 29>>, lc_n |-> <<6, 29>>, lw_p_e |-> <<7, 21>>,
     lw_q_e |-> <<7, 42>>, lw_q_e1 |-> <<7, 53>>, mt_cmd |-> <<1, 11>>,
     g1 |-> <<15, 5>>, gg |-> <<15, 5>>, gc |-> <<14, 5>>]

\* obj.name of declarations, tasks and workflows; imp.namespace of documents
Name ==
    [D |-> "root", L |-> "lib", M |-> "more", X |-> "aux",
     t |-> "t", lt |-> "lt", mt |-> "mt", w |-> "w", lw |-> "lw",
     c1 |-> "c1", c2 |-> "c2", c3 |-> "c3", lc |-> "lc",
     t_a |-> "a", t_b |-> "b", t_f |-> "f", t_o |-> "o",
     w_xs |-> "xs", sc_y |-> "y", w_z |-> "z", w_out |-> "out",
     lt_n |-> "n", lw_n |-> "n", lw_p |-> "p", lw_q |-> "q"]

\* the tree's optional parts that this parse does not have
Absent ==
    (IF cfg.aux THEN {} ELSE {"X"})
    \cup (IF cfg.wf THEN {} ELSE {"w"})
    \cup (IF "a" \in cfg.supplied THEN {} ELSE {"c1_a"})
    \cup (IF "b" \in cfg.supplied THEN {} ELSE {"c1_b"})
    \cup (IF cfg.subcalls >= 1 THEN {} ELSE {"c2"})
    \cup (IF cfg.subcalls >= 2 THEN {} ELSE {"c3"})

Sel(s) == SelectSeq(s, LAMBDA x : x \notin Absent)

Get(tab, n) == IF n \in DOMAIN tab THEN Sel(tab[n]) ELSE <<>>

\* Document.imports (the imported documents imp.doc, in order)
Imports(n) == Get([D |-> <<"L", "X">>, L |-> <<"M">>], n)
\* Document.struct_typedefs (the bindings' rhs)
Structs(n) == Get([D |-> <<"S">>, X |-> <<"XS">>], n)
\* Document.tasks
Tasks(n) == Get([D |-> <<"t">>, L |-> <<"lt">>, M |-> <<"mt">>], n)
\* Document.workflow, as a list of zero or one
WorkflowOf(n) == Get([D |-> <<"w">>, L |-> <<"lw">>], n)
\* Task.inputs / Workflow.inputs
Inputs(n) ==
    Get([t |-> <<"t_a", "t_b">>, lt |-> <<"lt_n">>, w |-> <<"w_xs">>,
         lw |-> <<"lw_n">>], n)
\* Task.postinputs
Postinputs(n) == Get([t |-> <<"t_f">>], n)
\* Task.command, as a list of one
Command(n) == Get([t |-> <<"t_cmd">>, lt |-> <<"lt_cmd">>, mt |-> <<"mt_cmd">>], n)
\* Task.runtime values
Runtime(n) == Get([t |-> <<"t_rt">>], n)
\* Task.outputs / Workflow.outputs
Outputs(n) == Get([t |-> <<"t_o">>, w |-> <<"w_out">>], n)
\* Workflow.elements / Scatter.elements / Conditional.elements
Elements(n) ==
    Get([w |-> <<"sc", "cd", "w_z">>, sc |-> <<"c1", "sc_y">>,
         cd |-> <<"c2", "c3">>, lw |-> <<"lc", "lw_p", "lw_q">>], n)
\* Scatter.expr / Conditional.expr / Decl.expr, as a list of zero or one
ExprOf(n) ==
    Get([sc |-> <<"sc_e">>, cd |-> <<"cd_e">>, t_f |-> <<"t_f_e">>,
         t_o |-> <<"t_o_e">>, sc_y |-> <<"sc_y_e">>, w_z |-> <<"w_z_e">>,
         w_out |-> <<"w_out_e">>, lw_p |-> <<"lw_p_e">>,
         lw_q |-> <<"lw_q_e">>], n)
\* Call.inputs: the expressions bound, in order
CallInputs(n) ==
    Get([c1 |-> <<"c1_a", "c1_b">>, c2 |-> <<"c2_n">>, lc |-> <<"lc_n">>], n)
\* Call.inputs: the input name each expression is bound to
InputName == [c1_a |-> "a", c1_b |-> "b", c2_n |-> "n", lc_n |-> "n"]
\* Call.callee
Callee == [c1 |-> "t", c2 |-> "lw", c3 |-> "lw", lc |-> "lt"]
\* operands of an expression (Expr.Base.children)
Operands(n) ==
    Get([t_cmd |-> <<"t_cmd_p">>, t_cmd_p |-> <<"t_cmd_id">>,
         w_z_e |-> <<"w_z_e1", "w_z_e2">>, lw_q_e |-> <<"lw_q_e1">>], n)

\* The children enumeration (SourceNode.children of each node class).
\* A Call's children are its input expressions and a Scatter's or
\* Conditional's first child is its governing expression: SetParents pushes
\* the Call/Scatter/Conditional around the descent so that these expressions
\* get it as parent, and SetReferrers finds identifiers "in call inputs,
\* scatter arrays, if conditions" by plain descent.
Children(n) ==
    CASE Kind[n] = "Document" ->
            Imports(n) \o Structs(n) \o Tasks(n) \o WorkflowOf(n)
      [] Kind[n] = "Workflow" -> Inputs(n) \o Elements(n) \o Outputs(n)
      [] Kind[n] = "Task" ->
            Inputs(n) \o Postinputs(n) \o Command(n) \o Runtime(n) \o Outputs(n)
      [] Kind[n] = "Call" -> CallInputs(n)
      [] Kind[n] \in {"Scatter", "Conditional"} -> ExprOf(n) \o Elements(n)
      [] Kind[n] = "Decl" -> ExprOf(n)
      [] Kind[n] = "Expr" -> Operands(n)
      [] OTHER -> <<>>

-----------------------------------------------------------------------------
(* Types (WDL/Type.py), as far as the modelled rules read them *)

Prim(k) == [k |-> k, a |-> <<>>, nonempty |-> FALSE]
ArrayT(item) == [k |-> "Array", a |-> <<item>>, nonempty |-> FALSE]
\* Array[item]+
ArrayPlusT(item) == [k |-> "Array", a |-> <<item>>, nonempty |-> TRUE]
MapT(key, value) == [k |-> "Map", a |-> <<key, value>>, nonempty |-> FALSE]
PairT(left, right) == [k |-> "Pair", a |-> <<left, right>>, nonempty |-> FALSE]

\* Decl.type and Expr.Base.type, as the type checker resolved them
TypeOf ==
    [t_a |-> Prim("Int"), t_b |-> Prim("File"), t_f |-> Prim("File"),
     t_o |-> Prim("File"), w_xs |-> ArrayT(Prim("Int")),
     sc_y |-> Prim("File"), w_z |-> Prim("String"),
     w_out |-> ArrayT(Prim("File")),
     lt_n |-> Prim("Int"), lw_n |-> Prim("Int"),
     lw_p |-> ArrayT(Prim("String")), lw_q |-> ArrayT(Prim("String")),
     t_f_e |-> Prim("String"), t_cmd |-> Prim("String"),
     t_cmd_p |-> Prim("String"), t_cmd_id |-> Prim("Int"),
     t_rt |-> Prim("String"), t_o_e |-> Prim("String"),
     sc_e |-> ArrayT(Prim("Int")), c1_a |-> Prim("Int"),
     c1_b |-> Prim("String"), sc_y_e |-> Prim("File"),
     cd_e |-> Prim("Boolean"), c2_n |-> ArrayT(Prim("File")),
     w_z_e |-> Prim("String"), w_z_e1 |-> Prim("String"),
     w_z_e2 |-> ArrayT(Prim("File")), w_out_e |-> ArrayT(Prim("File")),
     lt_cmd |-> Prim("String"), lc_n |-> Prim("Int"),
     lw_p_e |-> ArrayT(Prim("String")), lw_q_e |-> ArrayT(Prim("String")),
     lw_q_e1 |-> Prim("String"), mt_cmd |-> Prim("String")]

\* Expr.Apply.function_name
FunctionName == [w_z_e |-> "_add", lw_q_e |-> "read_lines"]

\* StdLib: argument_types of the StaticFunctions; other functions are not static
StaticArgTypes == [read_lines |-> <<Prim("File")>>]

\* _compound_coercion(to_type, from_type, base_to_type, extra_from_type);
\* extra = "" stands for None
RECURSIVE _compound_coercion(_, _, _, _)
_compound_coercion(to_type, from_type, base, extra) ==
    IF to_type.k = "Array" /\ from_type.k = "Array"
    THEN _compound_coercion(to_type.a[1], from_type.a[1], base, extra)
    ELSE IF to_type.k = "Map" /\ from_type.k = "Map"
    THEN \/ _compound_coercion(to_type.a[1], from_type.a[1], base, extra)
         \/ _compound_coercion(to_type.a[2], from_type.a[2], base, extra)
    ELSE IF to_type.k = "Pair" /\ from_type.k = "Pair"
    THEN \/ _compound_coercion(to_type.a[1], from_type.a[1], base, extra)
         \/ _compound_coercion(to_type.a[2], from_type.a[2], base, extra)
    ELSE IF to_type.k = base
    THEN IF extra # ""
         THEN from_type.k \notin {base, extra, "Any"}
         ELSE from_type.k \notin {base, "Any"}
    ELSE FALSE

\* _array_levels(ty, l)
RECURSIVE _array_levels(_, _)
_array_levels(ty, l) ==
    IF ty.k = "Array" THEN _array_levels(ty.a[1], l + 1) ELSE l

\* _is_array_coercion(value_type, expr_type)
_is_array_coercion(value_type, expr_type) ==
    /\ value_type.k = "Array"
    /\ _array_levels(value_type, 0) > _array_levels(expr_type, 0)
    /\ expr_type.k # "Any"
    /\ expr_type # ArrayT(Prim("Any"))

\* _is_nonempty_coercion(value_type, expr_type)
_is_nonempty_coercion(value_type, expr_type) ==
    /\ value_type.k = "Array"
    /\ expr_type.k = "Array"
    /\ value_type.nonempty
    /\ ~expr_type.nonempty

\* the test each coercion rule's call hook makes on an input binding of
\* declared type decl_type and expression type expr_type
CoercionTests(decl_type, expr_type) ==
    [StringCoercion |-> _compound_coercion(decl_type, expr_type, "String", ""),
     FileCoercion |-> _compound_coercion(decl_type, expr_type, "File", ""),
     ArrayCoercion |-> _is_array_coercion(decl_type, expr_type),
     NonemptyCoercion |-> _is_nonempty_coercion(decl_type, expr_type)]

-----------------------------------------------------------------------------
(* Helpers *)

Range(s) == {s[i] : i \in 1..Len(s)}

Last(s) == s[Len(s)]

Front(s) == SubSeq(s, 1, Len(s) - 1)

RECURSIVE Concat(_)
Concat(ss) == IF ss = <<>> THEN <<>> ELSE Head(ss) \o Concat(Tail(ss))

\* the frames self(ch) for ch in chs, in order
Visits(chs) == [i \in 1..Len(chs) |-> <<"visit", chs[i]>>]

\* Base.__call__ and Base._descend: the children recursed into
\*   if not isinstance(ch, Tree.Document) or self.descend_imports
GateNoFlag(chs, descend_imports) == chs
Gate(chs, descend_imports) ==
    SelectSeq(chs, LAMBDA ch : Kind[ch] # "Document" \/ descend_imports)

-----------------------------------------------------------------------------
(* Linter.add *)

\* the entry add appends: (pos, self.__class__.__name__, message); pos <<>>
\* stands for the omitted argument
Entry(obj, rule, message, pos) ==
    <<IF pos = <<>> THEN Pos[obj] ELSE pos, rule, message>>

\* add(obj, message, pos) of a rule instance: the new obj.lint lists, and the
\* exception raised
addReplacing(l, obj, rule, message, pos) ==
    IF IsExpr(obj)
    THEN [lint |-> l, err |-> "AssertionError"]
    ELSE [lint |-> [l EXCEPT ![obj] = <<Entry(obj, rule, message, pos)>>],
          err |-> ""]
addOnAny(l, obj, rule, message, pos) ==
    [lint |-> [l EXCEPT ![obj] = Append(@, Entry(obj, rule, message, pos))],
     err |-> ""]
add(l, obj, rule, message, pos) ==
    IF IsExpr(obj)
    THEN [lint |-> l, err |-> "AssertionError"]
    ELSE [lint |-> [l EXCEPT ![obj] = Append(@, Entry(obj, rule, message, pos))],
          err |-> ""]

\* a hook's calls of self.add, in order; the first exception ends the hook
RECURSIVE ApplyAdds(_, _)
ApplyAdds(l, reqs) ==
    IF reqs = <<>>
    THEN [lint |-> l, err |-> ""]
    ELSE IF Head(reqs).obj \notin Nodes
    THEN [lint |-> l, err |-> "AttributeError"]
    ELSE LET r == add(l, Head(reqs).obj, Head(reqs).rule, Head(reqs).msg,
                      Head(reqs).pos)
         IN  IF r.err # "" THEN r ELSE ApplyAdds(r.lint, Tail(reqs))

Req(obj, rule, text, args, tys, pos) ==
    [obj |-> obj, rule |-> rule,
     msg |-> [text |-> text, args |-> args, tys |-> tys], pos |-> pos]

-----------------------------------------------------------------------------
(* The rules (WDL/Lint.py) *)

\* _all_linters, in registration order (the rules modelled)
_all_linters ==
    <<"FileCoercion", "IncompleteCall", "UnusedImport", "ForwardReference">>

\* linter.auto_descend of an instance of the rule
AutoDescend ==
    [FileCoercion |-> FALSE, IncompleteCall |-> TRUE, UnusedImport |-> TRUE,
     ForwardReference |-> TRUE]

\* Iteration order of a Python set of strings: it follows the strings' hashes,
\* which the process's hash seed decides.  Two classes of seeds are modelled:
\* one enumerates the names ascending, the other descending.
Seeds == {"s0", "s1"}

NameRank == [a |-> 1, b |-> 2, n |-> 3]

RECURSIVE SetOrder(_, _)
SetOrder(sd, S) ==
    IF S = {} THEN <<>>
    ELSE LET x == CHOOSE y \in S :
                    \A z \in S : IF sd = "s0" THEN NameRank[y] <= NameRank[z]
                                 ELSE NameRank[y] >= NameRank[z]
         IN  <<x>> \o SetOrder(sd, S \ {x})

\* callee.required_inputs: the inputs without a default
RequiredInputs(callee) == {d \in Range(Inputs(callee)) : ExprOf(d) = <<>>}

\* _find_input_decl(obj, name)
_find_input_decl(obj, name) ==
    CHOOSE d \in Range(Inputs(Callee[obj])) : Name[d] = name

FlatMap(s, F(_)) == Concat([i \in 1..Len(s) |-> F(s[i])])

\* IncompleteCall.call
IncompleteCall_callAllRequired(obj, sd) ==
    LET required == {Name[d] : d \in RequiredInputs(Callee[obj])}
    IN  IF required # {}
        THEN <<Req(obj, "IncompleteCall", "required input(s) omitted in call to",
                   <<Name[Callee[obj]]>> \o SetOrder(sd, required), <<>>, <<>>)>>
        ELSE <<>>
IncompleteCall_call(obj, sd) ==
    LET required == {Name[d] : d \in RequiredInputs(Callee[obj])}
        supplied == {InputName[e] : e \in Range(CallInputs(obj))}
        omitted == required \ supplied
    IN  IF omitted # {}
        THEN <<Req(obj, "IncompleteCall", "required input(s) omitted in call to",
                   <<Name[Callee[obj]]>> \o SetOrder(sd, omitted), <<>>, <<>>)>>
        ELSE <<>>

\* UnusedImport.document
UnusedImport_documentNoGuard(obj, cl) ==
    LET one(imp) ==
            LET any_called ==
                    \/ \E task \in Range(Tasks(imp)) : cl[task]
                    \/ \E wf \in Range(WorkflowOf(imp)) : cl[wf]
            IN  IF ~any_called
                THEN <<Req(obj, "UnusedImport",
                           "no calls to tasks/workflow in the imported document",
                           <<Name[imp]>>, <<>>, <<>>)>>
                ELSE <<>>
    IN  FlatMap(Imports(obj), one)
UnusedImport_document(obj, cl) ==
    LET one(imp) ==
            LET any_called ==
                    \/ \E task \in Range(Tasks(imp)) : cl[task]
                    \/ \E wf \in Range(WorkflowOf(imp)) : cl[wf]
            IN  IF ~any_called /\ (Tasks(imp) # <<>> \/ WorkflowOf(imp) # <<>>)
                THEN <<Req(obj, "UnusedImport",
                           "no calls to tasks/workflow in the imported document",
                           <<Name[imp]>>, <<>>, <<>>)>>
                ELSE <<>>
    IN  FlatMap(Imports(obj), one)

\* while isinstance(referee, Tree.Gather): referee = referee.referee
RECURSIVE Unwrap(_)
Unwrap(referee) ==
    IF Kind[referee] = "Gather" THEN Unwrap(Referee[referee]) ELSE referee

\* referee.pos is later than obj.pos, by line and then column
LaterByLine(referee, obj) == Pos[referee][1] > Pos[obj][1]
Later(referee, obj) ==
    \/ Pos[referee][1] > Pos[obj][1]
    \/ Pos[referee][1] = Pos[obj][1] /\ Pos[referee][2] > Pos[obj][2]

\* ForwardReference.expr
ForwardReference_expr(obj, pt) ==
    IF IsIdent(obj)
    THEN LET referee == Unwrap(Referee[obj])
         IN  IF Kind[referee] \in {"Decl", "Call"} /\ Later(referee, obj)
             THEN <<Req(pt[obj], "ForwardReference",
                        IF Kind[referee] = "Decl"
                        THEN "reference precedes its declaration"
                        ELSE "reference to output precedes the call",
                        <<Name[referee]>>, <<>>, Pos[obj])>>
             ELSE <<>>
    ELSE <<>>

\* FileCoercion.decl, after super().decl(obj)
FileCoercion_decl(obj) ==
    IF /\ ExprOf(obj) # <<>>
       /\ _compound_coercion(TypeOf[obj], TypeOf[ExprOf(obj)[1]], "File", "")
    THEN <<Req(obj, "FileCoercion", "decl", <<Name[obj]>>,
               <<TypeOf[obj], TypeOf[ExprOf(obj)[1]]>>, <<>>)>>
    ELSE <<>>

Min(x, y) == IF x <= y THEN x ELSE y

\* FileCoercion.expr, after super().expr(obj)
FileCoercion_expr(obj, pt) ==
    IF ~IsApply(obj) THEN <<>>
    ELSE IF FunctionName[obj] \in DOMAIN StaticArgTypes
    THEN LET F == StaticArgTypes[FunctionName[obj]]
             args == Operands(obj)
             one(i) ==
                 IF _compound_coercion(F[i], TypeOf[args[i]], "File", "")
                 THEN <<Req(pt[obj], "FileCoercion", "argument",
                            <<FunctionName[obj]>>, <<F[i], TypeOf[args[i]]>>,
                            Pos[args[i]])>>
                 ELSE <<>>
         IN  FlatMap([i \in 1..Min(Len(F), Len(args)) |-> i], one)
    ELSE IF FunctionName[obj] = "size"
    THEN LET arg0 == Operands(obj)[1]
             arg0ty == TypeOf[arg0]
         IN  IF /\ arg0ty.k # "File"
                /\ ~(arg0ty.k = "Array" /\ arg0ty.a[1].k = "File")
             THEN <<Req(pt[obj], "FileCoercion", "size argument", <<>>,
                        <<arg0ty>>, Pos[arg0])>>
             ELSE <<>>
    ELSE <<>>

\* FileCoercion.call, after super().call(obj)
FileCoercion_call(obj) ==
    LET one(inp_expr) ==
            LET decl == _find_input_decl(obj, InputName[inp_expr])
            IN  IF _compound_coercion(TypeOf[decl], TypeOf[inp_expr], "File", "")
                THEN <<Req(obj, "FileCoercion", "input", <<Name[decl]>>,
                           <<TypeOf[decl], TypeOf[inp_expr]>>, Pos[inp_expr])>>
                ELSE <<>>
    IN  FlatMap(CallInputs(obj), one)

\* the hook of an auto-descend rule instance that Base.__call__ / Multi
\* dispatches obj to: the calls of self.add it makes
Hook(rule, obj) ==
    CASE rule = "IncompleteCall" /\ Kind[obj] = "Call" ->
            IncompleteCall_call(obj, seed)
      [] rule = "UnusedImport" /\ Kind[obj] = "Document" ->
            UnusedImport_document(obj, called)
      [] rule = "ForwardReference" /\ Kind[obj] = "Expr" ->
            ForwardReference_expr(obj, parent)
      [] OTHER -> <<>>

-----------------------------------------------------------------------------
(* The annotation passes (WDL/Walker.py) *)

Assign(p, S, v) == [x \in Nodes |-> IF x \in S THEN v ELSE p[x]]

\* SetParents.call/scatter/conditional/task/decl: self._parent_stack.append(obj)
SetParents_pushesNoDecl(obj) ==
    Kind[obj] \in {"Call", "Scatter", "Conditional", "Task"}
SetParents_pushes(obj) ==
    Kind[obj] \in {"Call", "Scatter", "Conditional", "Task", "Decl"}

\* SetParents.document/workflow/scatter/conditional/task: the nodes whose
\* parent the hook sets to obj (for imp in obj.imports: imp.doc.parent = obj ...)
SetParents_eltsNoSections(obj) ==
    CASE Kind[obj] = "Document" ->
            Range(Imports(obj)) \cup Range(Structs(obj))
                \cup Range(Tasks(obj)) \cup Range(WorkflowOf(obj))
      [] Kind[obj] = "Workflow" ->
            Range(Inputs(obj)) \cup Range(Elements(obj)) \cup Range(Outputs(obj))
      [] Kind[obj] = "Task" ->
            Range(Inputs(obj)) \cup Range(Postinputs(obj))
                \cup Range(Outputs(obj))
      [] OTHER -> {}
SetParents_eltsNoOutputs(obj) ==
    CASE Kind[obj] = "Document" ->
            Range(Imports(obj)) \cup Range(Structs(obj))
                \cup Range(Tasks(obj)) \cup Range(WorkflowOf(obj))
      [] Kind[obj] = "Workflow" -> Range(Inputs(obj)) \cup Range(Elements(obj))
      [] Kind[obj] \in {"Scatter", "Conditional"} -> Range(Elements(obj))
      [] Kind[obj] = "Task" -> Range(Inputs(obj)) \cup Range(Postinputs(obj))
      [] OTHER -> {}
SetParents_elts(obj) ==
    CASE Kind[obj] = "Document" ->
            Range(Imports(obj)) \cup Range(Structs(obj))
                \cup Range(Tasks(obj)) \cup Range(WorkflowOf(obj))
      [] Kind[obj] = "Workflow" ->
            Range(Inputs(obj)) \cup Range(Elements(obj)) \cup Range(Outputs(obj))
      [] Kind[obj] \in {"Scatter", "Conditional"} -> Range(Elements(obj))
      [] Kind[obj] = "Task" ->
            Range(Inputs(obj)) \cup Range(Postinputs(obj))
                \cup Range(Outputs(obj))
      [] OTHER -> {}

\* SetParents.<hook>, after super().<hook>(obj): obj.parent = None and the
\* parents of its elements; SetParents.expr: obj.parent = self._parent_stack[-1]
SetParents_postBottom(p, obj, st) ==
    CASE Kind[obj] \in {"Document", "Workflow", "Scatter", "Conditional", "Task"} ->
            Assign([p EXCEPT ![obj] = "None"], SetParents_elts(obj), obj)
      [] Kind[obj] = "Expr" -> [p EXCEPT ![obj] = Head(st)]
      [] OTHER -> p
SetParents_post(p, obj, st) ==
    CASE Kind[obj] \in {"Document", "Workflow", "Scatter", "Conditional", "Task"} ->
            Assign([p EXCEPT ![obj] = "None"], SetParents_elts(obj), obj)
      [] Kind[obj] = "Expr" -> [p EXCEPT ![obj] = Last(st)]
      [] OTHER -> p

\* MarkCalled.<hook>(obj) up to its descent: the fields written, the frames
\* pushed and the exception raised
MarkCalled_visitNoGuard(obj, cl, mk, p, d) ==
    LET same == [called |-> cl, marking |-> mk, push |-> <<>>, err |-> ""]
        reset == [cl EXCEPT ![obj] = FALSE]
    IN  CASE Kind[obj] = "Workflow" ->
                IF p[obj] \notin Nodes \/ p[p[obj]] = "unset"
                THEN [same EXCEPT !.called = reset, !.err = "AttributeError"]
                ELSE IF p[p[obj]] = "None"
                THEN IF mk
                     THEN [same EXCEPT !.called = reset, !.err = "AssertionError"]
                     ELSE [same EXCEPT !.called = [cl EXCEPT ![obj] = TRUE],
                                       !.marking = TRUE,
                                       !.push = Visits(Gate(Children(obj), d))
                                                    \o <<<<"post", obj>>>>]
                ELSE [same EXCEPT !.called = reset,
                                  !.push = Visits(Gate(Children(obj), d))]
          [] Kind[obj] = "Call" ->
                IF ~mk
                THEN [same EXCEPT !.err = "AssertionError"]
                ELSE IF Kind[Callee[obj]] = "Workflow"
                THEN [same EXCEPT !.push = <<<<"visit", Callee[obj]>>,
                                             <<"post", obj>>>>]
                ELSE [same EXCEPT !.called = [cl EXCEPT ![Callee[obj]] = TRUE]]
          [] Kind[obj] = "Task" -> [same EXCEPT !.called = reset]
          [] OTHER -> [same EXCEPT !.push = Visits(Gate(Children(obj), d))]
MarkCalled_visitTwice(obj, cl, mk, p, d) ==
    LET same == [called |-> cl, marking |-> mk, push |-> <<>>, err |-> ""]
        reset == [cl EXCEPT ![obj] = FALSE]
    IN  CASE Kind[obj] = "Workflow" ->
                IF p[obj] \notin Nodes \/ p[p[obj]] = "unset"
                THEN [same EXCEPT !.called = reset, !.err = "AttributeError"]
                ELSE IF p[p[obj]] = "None"
                THEN IF mk
                     THEN [same EXCEPT !.called = reset, !.err = "AssertionError"]
                     ELSE [same EXCEPT !.called = [cl EXCEPT ![obj] = TRUE],
                                       !.marking = TRUE,
                                       !.push = Visits(Gate(Children(obj), d))
                                                    \o <<<<"post", obj>>>>]
                ELSE IF mk
                THEN [same EXCEPT !.called = reset,
                                  !.push = Visits(Gate(Children(obj), d))]
                ELSE [same EXCEPT !.called = reset]
          [] Kind[obj] = "Call" ->
                IF ~mk
                THEN [same EXCEPT !.err = "AssertionError"]
                ELSE IF Kind[Callee[obj]] = "Workflow"
                THEN [same EXCEPT !.push = <<<<"visit", Callee[obj]>>,
                                             <<"visit", Callee[obj]>>,
                                             <<"post", obj>>>>]
                ELSE [same EXCEPT !.called = [cl EXCEPT ![Callee[obj]] = TRUE]]
          [] Kind[obj] = "Task" -> [same EXCEPT !.called = reset]
          [] OTHER -> [same EXCEPT !.push = Visits(Gate(Children(obj), d))]
MarkCalled_visit(obj, cl, mk, p, d) ==
    LET same == [called |-> cl, marking |-> mk, push |-> <<>>, err |-> ""]
        reset == [cl EXCEPT ![obj] = FALSE]
    IN  CASE Kind[obj] = "Workflow" ->
                IF p[obj] \notin Nodes \/ p[p[obj]] = "unset"
                THEN [same EXCEPT !.called = reset, !.err = "AttributeError"]
                ELSE IF p[p[obj]] = "None"
                THEN IF mk
                     THEN [same EXCEPT !.called = reset, !.err = "AssertionError"]
                     ELSE [same EXCEPT !.called = [cl EXCEPT ![obj] = TRUE],
                                       !.marking = TRUE,
                                       !.push = Visits(Gate(Children(obj), d))
                                                    \o <<<<"post", obj>>>>]
                ELSE IF mk
                THEN [same EXCEPT !.called = reset,
                                  !.push = Visits(Gate(Children(obj), d))]
                ELSE [same EXCEPT !.called = reset]
          [] Kind[obj] = "Call" ->
                IF ~mk
                THEN [same EXCEPT !.err = "AssertionError"]
                ELSE IF Kind[Callee[obj]] = "Workflow"
                THEN [same EXCEPT !.push = <<<<"visit", Callee[obj]>>,
                                             <<"post", obj>>>>]
                ELSE [same EXCEPT !.called = [cl EXCEPT ![Callee[obj]] = TRUE]]
          [] Kind[obj] = "Task" -> [same EXCEPT !.called = reset]
          [] OTHER -> [same EXCEPT !.push = Visits(Gate(Children(obj), d))]

\* MarkCalled.workflow after super().workflow(obj): self.marking = False;
\* MarkCalled.call after self(obj.callee): obj.callee.called = True
MarkCalled_postNoMark(obj, cl, mk) ==
    IF Kind[obj] = "Workflow"
    THEN [called |-> cl, marking |-> FALSE]
    ELSE [called |-> cl, marking |-> mk]
MarkCalled_post(obj, cl, mk) ==
    IF Kind[obj] = "Workflow"
    THEN [called |-> cl, marking |-> FALSE]
    ELSE [called |-> [cl EXCEPT ![Callee[obj]] = TRUE], marking |-> mk]

\* SetReferrers.expr
SetReferrers_exprFirstOnly(rf, obj) ==
    IF IsIdent(obj) /\ Kind[Referee[obj]] \in {"Decl", "Call"}
    THEN [rf EXCEPT ![Referee[obj]] = @ \o <<obj>>]
    ELSE rf
SetReferrers_expr(rf, obj) ==
    IF IsIdent(obj) /\ Kind[Unwrap(Referee[obj])] \in {"Decl", "Call"}
    THEN [rf EXCEPT ![Unwrap(Referee[obj])] = @ \o <<obj>>]
    ELSE rf

-----------------------------------------------------------------------------
(* lint (WDL/Lint.py) *)

\* the walkers lint runs, in order: the three annotation passes, the
\* multiplexer of the auto-descend instances, the manual-descend instances
LintPlanMarkFirst ==
    <<"MarkCalled", "SetParents", "SetReferrers", "Multi", "Manual">>
LintPlan == <<"SetParents", "MarkCalled", "SetReferrers", "Multi", "Manual">>

\* [linter for linter in linter_instances if linter.auto_descend]
AutoInstancesAll(instances) == instances
AutoInstances(instances) == SelectSeq(instances, LAMBDA r : AutoDescend[r])

\* the instances lint runs one by one: if not linter.auto_descend
ManualInstancesAll(instances) == instances
ManualInstances(instances) == SelectSeq(instances, LAMBDA r : ~AutoDescend[r])

\* Multi.__init__: for w in walkers: assert w.auto_descend
Multi_init_ok(ws) == \A i \in 1..Len(ws) : AutoDescend[ws[i]]

\* FileCoercion.<hook>(obj) up to its descent: the frames pushed
FileCoercion_visitAll(obj, d) ==
    IF Kind[obj] \in {"Decl", "Expr", "Call"}
    THEN Visits(Gate(Children(obj), d)) \o <<<<"post", obj>>>>
    ELSE Visits(Gate(Children(obj), d))
FileCoercion_visit(obj, d) ==
    CASE Kind[obj] = "Task" ->
            Visits(Inputs(obj) \o Postinputs(obj) \o Command(obj)
                       \o Runtime(obj))
      [] Kind[obj] \in {"Decl", "Expr", "Call"} ->
            Visits(Gate(Children(obj), d)) \o <<<<"post", obj>>>>
      [] OTHER -> Visits(Gate(Children(obj), d))

\* FileCoercion.<hook>(obj) after its descent: the calls of self.add
FileCoercion_post(obj, pt) ==
    CASE Kind[obj] = "Decl" -> FileCoercion_decl(obj)
      [] Kind[obj] = "Expr" -> FileCoercion_expr(obj, pt)
      [] Kind[obj] = "Call" -> FileCoercion_call(obj)
      [] OTHER -> <<>>

-----------------------------------------------------------------------------
(* The upward searches of NameCollision, UnusedCall, UnnecessaryQuantifier *)

\* while not isinstance(x, kinds): x = getattr(x, "parent"): the node the loop
\* ends on, the exception it raises on None or a missing attribute, or
\* "loops" when it has taken more steps than there are nodes
RECURSIVE Ascend(_, _, _, _)
Ascend(p, x, kinds, fuel) ==
    IF Kind[x] \in kinds THEN x
    ELSE IF p[x] \notin Nodes THEN "AttributeError"
    ELSE IF fuel = 0 THEN "loops"
    ELSE Ascend(p, p[x], kinds, fuel - 1)

\* NameCollision.call: doc
NameCollision_doc(p, obj) == Ascend(p, obj, {"Document"}, Cardinality(Nodes))
\* UnusedCall.call: workflow
UnusedCall_workflow(p, obj) == Ascend(p, obj, {"Workflow"}, Cardinality(Nodes))
\* UnnecessaryQuantifier.decl: tw
UnnecessaryQuantifier_tw(p, obj) ==
    Ascend(p, obj, {"Task", "Workflow"}, Cardinality(Nodes))

-----------------------------------------------------------------------------
(* CommandShellCheck and the shellcheck binary *)

TaskNodes == {n \in Nodes : Kind[n] = "Task"}

\* col_offset: the leading whitespace _util.strip_leading_whitespace removes
\* from the task's command
CommandIndent == [t |-> 2, lt |-> 0, mt |-> 0]

\* an item of shellcheck's JSON list: a finding, and one without the keys read
Finding == [ok |-> TRUE, code |-> "SC2086", line |-> 2, column |-> 5]
Malformed == [ok |-> FALSE, code |-> "", line |-> 0, column |-> 0]

\* what running shellcheck on a script can give: exit status and standard
\* output (nothing, not JSON, a JSON object, a JSON list of items)
ToolResults ==
    {[exit |-> 0, json |-> "list", items |-> <<>>],
     [exit |-> 1, json |-> "list", items |-> <<Finding>>],
     [exit |-> 1, json |-> "list", items |-> <<Finding, Malformed>>],
     [exit |-> 0, json |-> "empty", items |-> <<>>],
     [exit |-> 1, json |-> "empty", items |-> <<>>],
     [exit |-> 1, json |-> "invalid", items |-> <<>>],
     [exit |-> 0, json |-> "object", items |-> <<>>],
     [exit |-> 2, json |-> "empty", items |-> <<>>]}

\* no shellcheck on the PATH, CommandShellCheck never constructed
NoShell ==
    [installed |-> FALSE, available |-> "None", spawns |-> 0,
     tool |-> [n \in TaskNodes |-> [exit |-> 0, json |-> "list", items |-> <<>>]],
     ran |-> <<>>]

\* CommandShellCheck.__init__: _shellcheck_available is probed if it is None
CommandShellCheck_initReprobe(sh) ==
    [sh EXCEPT !.available = "True"]
CommandShellCheck_init(sh) ==
    IF sh.available = "None"
    THEN [sh EXCEPT !.available = IF sh.installed THEN "True" ELSE "False"]
    ELSE sh

\* CommandShellCheck.task, after the subprocess: json.loads, the assertion and
\* the loop over the items, all inside try/except
RECURSIVE ShellItems(_, _)
ShellItems(obj, items) ==
    IF items = <<>> THEN <<>>
    ELSE IF ~Head(items).ok
    THEN <<Req(obj, "CommandShellCheck", "error parsing shellcheck output JSON",
               <<>>, <<>>, Pos[Command(obj)[1]])>>
    ELSE <<Req(obj, "CommandShellCheck", "SC", <<Head(items).code>>, <<>>,
               <<Pos[Command(obj)[1]][1] + Head(items).line - 1,
                 CommandIndent[obj] + Head(items).column - 1>>)>>
             \o ShellItems(obj, Tail(items))

\* CommandShellCheck.task: the calls of add, and the binary's use
CommandShellCheck_taskAlways(obj, sh) ==
    [reqs |-> <<>>,
     shell |-> [sh EXCEPT !.spawns = @ + 1, !.ran = Append(@, obj)]]
CommandShellCheck_task(obj, sh) ==
    IF sh.available # "True"
    THEN [reqs |-> <<>>, shell |-> sh]
    ELSE LET res == sh.tool[obj]
             failed == res.exit \notin {0, 1}
             first ==
                 IF failed
                 THEN <<Req(obj, "CommandShellCheck",
                            "shellcheck failed on the task command", <<>>, <<>>,
                            Pos[Command(obj)[1]])>>
                 ELSE <<>>
             \* if shellcheck_items: neither None nor empty
             second ==
                 IF failed \/ res.json = "empty" THEN <<>>
                 ELSE IF res.json \in {"invalid", "object"}
                 THEN <<Req(obj, "CommandShellCheck",
                            "error parsing shellcheck output JSON", <<>>, <<>>,
                            Pos[Command(obj)[1]])>>
                 ELSE ShellItems(obj, res.items)
         IN  [reqs |-> first \o second,
              shell |-> [sh EXCEPT !.spawns = @ + 1, !.ran = Append(@, obj)]]

-----------------------------------------------------------------------------
(* State machine *)

NoLists == [n \in Nodes |-> <<>>]

Op(name, d, node, ws, pos) ==
    [name |-> name, di |-> d, node |-> node, ws |-> ws, pos |-> pos]

Trees ==
    {c \in [aux : BOOLEAN, wf : BOOLEAN,
            supplied : {{}, {"a"}, {"a", "b"}}, subcalls : 0..MaxSubCalls] :
        ~c.wf => (c.supplied = {} /\ c.subcalls = 0)}

\* a freshly parsed tree in a fresh process, no operation started
Fresh ==
    /\ seed = "s0"
    /\ parent = [n \in Nodes |-> "unset"]
    /\ called = [n \in Nodes |-> FALSE]
    /\ referrers = NoLists
    /\ lint = NoLists
    /\ pstack = <<>>
    /\ marking = FALSE
    /\ phase = "idle"
    /\ stk = <<>>
    /\ di = TRUE
    /\ walkers = <<>>
    /\ manual = <<>>
    /\ log = <<>>
    /\ out = <<>>
    /\ err = ""
    /\ ops = 0
    /\ runs = 0
    /\ parses = 0
    /\ prev = [valid |-> FALSE, di |-> TRUE, lint |-> NoLists]

Init ==
    /\ cfg \in Trees
    /\ op = Op("none", TRUE, Root, <<>>, <<>>)
    /\ Fresh
    /\ shell = NoShell

Event(w, n) == [w |-> w, n |-> n]

\* lint(doc, descend_imports) is called on the root document
Lint(d) ==
    /\ phase = "idle"
    /\ ops < MaxOps
    /\ op' = Op("lint", d, Root, <<>>, <<>>)
    /\ ops' = ops + 1
    /\ phase' = "start"
    /\ log' = <<>>
    /\ err' = ""
    /\ UNCHANGED <<cfg, shell, seed, parent, called, referrers, lint, pstack, marking,
                   stk, di, walkers, out, runs, parses, manual, prev>>

PlanIndex(ph) ==
    IF ph \in Range(LintPlan)
    THEN CHOOSE i \in 1..Len(LintPlan) : LintPlan[i] = ph
    ELSE 0

\* lint: the previous walker returned; construct and call the next, or return
LintAdvance ==
    /\ op.name = "lint"
    /\ phase \in {"start"} \cup Range(LintPlan)
    /\ stk = <<>>
    /\ LET nxt == IF phase = "Manual" /\ Len(manual) > 1 THEN "Manual"
                  ELSE IF PlanIndex(phase) = Len(LintPlan) THEN "idle"
                  ELSE LintPlan[PlanIndex(phase) + 1]
       IN  CASE nxt = "idle" ->
                   /\ phase' = "idle"
                   /\ runs' = runs + 1
                   /\ manual' = <<>>
                   /\ UNCHANGED <<stk, di, walkers, marking, err>>
             [] nxt = "Multi" ->
                   LET ws == AutoInstances(_all_linters)
                   IN  IF Multi_init_ok(ws)
                       THEN /\ phase' = "Multi"
                            /\ walkers' = ws
                            /\ di' = op.di
                            /\ stk' = <<<<"visit", Root>>>>
                            /\ UNCHANGED <<runs, manual, marking, err>>
                       ELSE /\ phase' = "idle"
                            /\ err' = "AssertionError"
                            /\ UNCHANGED <<runs, manual, marking, stk, di,
                                           walkers>>
             [] nxt = "Manual" ->
                   LET ms == IF phase = "Manual" THEN Tail(manual)
                             ELSE ManualInstances(_all_linters)
                   IN  /\ phase' = "Manual"
                       /\ manual' = ms
                       /\ di' = op.di
                       /\ stk' = IF ms = <<>> THEN <<>>
                                 ELSE <<<<"visit", Root>>>>
                       /\ UNCHANGED <<runs, walkers, marking, err>>
             [] OTHER ->
                   /\ phase' = nxt
                   /\ di' = TRUE
                   /\ marking' = IF nxt = "MarkCalled" THEN FALSE ELSE marking
                   /\ stk' = <<<<"visit", Root>>>>
                   /\ UNCHANGED <<runs, manual, walkers, err>>
    /\ UNCHANGED <<cfg, shell, seed, parent, called, referrers, lint, pstack, log, out,
                   op, ops, parses, prev>>

\* one frame of Walker.SetParents()(doc)
SetParentsStep ==
    /\ phase = "SetParents"
    /\ stk # <<>>
    /\ LET f == Head(stk)
           n == f[2]
       IN  IF f[1] = "visit"
           THEN /\ log' = Append(log, Event("SetParents", n))
                /\ pstack' = IF SetParents_pushes(n) THEN Append(pstack, n)
                             ELSE pstack
                /\ stk' = Visits(Gate(Children(n), di))
                              \o (IF Kind[n] = "StructTypeDef" THEN <<>>
                                  ELSE <<<<"post", n>>>>)
                              \o Tail(stk)
                /\ UNCHANGED <<parent, phase, err>>
           ELSE IF IsExpr(n) /\ pstack = <<>>
           THEN /\ phase' = "idle"
                /\ stk' = <<>>
                /\ err' = "IndexError"
                /\ UNCHANGED <<parent, pstack, log>>
           ELSE /\ pstack' = IF SetParents_pushes(n) THEN Front(pstack)
                             ELSE pstack
                /\ parent' = SetParents_post(parent, n, pstack)
                /\ stk' = Tail(stk)
                /\ UNCHANGED <<phase, err, log>>
    /\ UNCHANGED <<cfg, shell, seed, called, referrers, lint, marking, di, walkers,
                   out, op, ops, runs, parses, manual, prev>>

\* one frame of Walker.MarkCalled()(doc)
MarkCalledStep ==
    /\ phase = "MarkCalled"
    /\ stk # <<>>
    /\ LET f == Head(stk)
           n == f[2]
       IN  IF f[1] = "visit"
           THEN LET r == MarkCalled_visit(n, called, marking, parent, di)
                IN  /\ log' = Append(log, Event("MarkCalled", n))
                    /\ called' = r.called
                    /\ marking' = r.marking
                    /\ err' = r.err
                    /\ phase' = IF r.err # "" THEN "idle" ELSE phase
                    /\ stk' = IF r.err # "" THEN <<>>
                              ELSE r.push \o Tail(stk)
           ELSE LET r == MarkCalled_post(n, called, marking)
                IN  /\ called' = r.called
                    /\ marking' = r.marking
                    /\ stk' = Tail(stk)
                    /\ UNCHANGED <<log, err, phase>>
    /\ UNCHANGED <<cfg, shell, seed, parent, referrers, lint, pstack, di, walkers,
                   out, op, ops, runs, parses, manual, prev>>

\* one frame of Walker.SetReferrers()(doc): auto-descend
SetReferrersStep ==
    /\ phase = "SetReferrers"
    /\ stk # <<>>
    /\ LET n == Head(stk)[2]
       IN  /\ log' = Append(log, Event("SetReferrers", n))
           /\ referrers' = SetReferrers_expr(referrers, n)
           /\ stk' = Visits(Gate(Children(n), di)) \o Tail(stk)
    /\ UNCHANGED <<cfg, shell, seed, parent, called, lint, pstack, marking, phase, di,
                   walkers, out, err, op, ops, runs, parses, manual, prev>>

\* one frame of Walker.Multi(...)(doc): every walker's hook on the node, in
\* order, then the descent of Base.__call__
MultiStep ==
    /\ phase = "Multi"
    /\ stk # <<>>
    /\ LET n == Head(stk)[2]
           hook(w) == Hook(w, n)
           r == ApplyAdds(lint, FlatMap(walkers, hook))
       IN  /\ log' = log \o [i \in 1..Len(walkers) |-> Event(walkers[i], n)]
           /\ lint' = r.lint
           /\ err' = r.err
           /\ phase' = IF r.err # "" THEN "idle" ELSE phase
           /\ stk' = IF r.err # "" THEN <<>>
                     ELSE Visits(Gate(Children(n), di)) \o Tail(stk)
    /\ UNCHANGED <<cfg, shell, seed, parent, called, referrers, pstack, marking, di,
                   walkers, out, op, ops, runs, parses, manual, prev>>

\* one frame of linter(doc) for lint's running manual-descend instance
ManualStep ==
    /\ phase = "Manual"
    /\ stk # <<>>
    /\ LET f == Head(stk)
           n == f[2]
       IN  IF f[1] = "visit"
           THEN /\ log' = Append(log, Event(Head(manual), n))
                /\ stk' = FileCoercion_visit(n, di) \o Tail(stk)
                /\ UNCHANGED <<lint, err, phase>>
           ELSE LET r == ApplyAdds(lint, FileCoercion_post(n, parent))
                IN  /\ lint' = r.lint
                    /\ err' = r.err
                    /\ phase' = IF r.err # "" THEN "idle" ELSE phase
                    /\ stk' = IF r.err # "" THEN <<>> ELSE Tail(stk)
                    /\ UNCHANGED log
    /\ UNCHANGED <<cfg, shell, seed, parent, called, referrers, pstack, marking, di,
                   walkers, out, op, ops, runs, parses, manual, prev>>

\* collect(doc) is called on the root document
Collect ==
    /\ phase = "idle"
    /\ ops < MaxOps
    /\ op' = Op("collect", TRUE, Root, <<>>, <<>>)
    /\ ops' = ops + 1
    /\ phase' = "Collect"
    /\ stk' = <<<<"visit", Root>>>>
    /\ di' = TRUE
    /\ out' = <<>>
    /\ log' = <<>>
    /\ err' = ""
    /\ UNCHANGED <<cfg, shell, seed, parent, called, referrers, lint, pstack, marking,
                   walkers, runs, parses, manual, prev>>

\* _Collector.__call__: extend the list by the node's lint, then dispatch and
\* descend
Collector_callPrepend(o, l, obj) == l[obj] \o o
Collector_call(o, l, obj) == o \o l[obj]

\* one frame of collector(doc)
CollectStep ==
    /\ phase = "Collect"
    /\ stk # <<>>
    /\ LET n == Head(stk)[2]
       IN  /\ out' = Collector_call(out, lint, n)
           /\ stk' = Visits(Gate(Children(n), di)) \o Tail(stk)
    /\ UNCHANGED <<cfg, shell, seed, parent, called, referrers, lint, pstack, marking,
                   phase, di, walkers, log, err, op, ops, runs, parses, manual,
                   prev>>

\* collect returns collector.lint; a client's multiplexer returns
Return ==
    /\ \/ phase = "Collect"
       \/ phase = "Multi" /\ op.name = "multi"
    /\ stk = <<>>
    /\ phase' = "idle"
    /\ UNCHANGED <<cfg, shell, seed, parent, called, referrers, lint, pstack, marking,
                   stk, di, walkers, log, out, err, op, ops, runs, parses,
                   manual, prev>>

\* positions a client passes to add
ClientPos == {<<>>, <<99, 1>>}

\* a rule instance's add(obj, message, pos) is called by client code, on a
\* tree that lint has annotated
ClientAdd(obj, pos) ==
    /\ phase = "idle"
    /\ ops < MaxOps
    /\ runs >= 1
    /\ obj \notin Absent
    /\ op' = Op("add", TRUE, obj, <<>>, pos)
    /\ ops' = ops + 1
    /\ LET r == add(lint, obj, "ClientRule",
                    [text |-> "client", args |-> <<>>, tys |-> <<>>], pos)
       IN  /\ lint' = r.lint
           /\ err' = r.err
    /\ log' = <<>>
    /\ UNCHANGED <<cfg, shell, seed, parent, called, referrers, pstack, marking, phase,
                   stk, di, walkers, out, runs, parses, manual, prev>>

\* Walker.Multi(ws, descend_imports)(doc) is called by client code on a tree
\* that lint has annotated
ClientMulti(ws, d) ==
    /\ phase = "idle"
    /\ ops < MaxOps
    /\ runs >= 1
    /\ op' = Op("multi", d, Root, ws, <<>>)
    /\ ops' = ops + 1
    /\ log' = <<>>
    /\ IF Multi_init_ok(ws)
       THEN /\ phase' = "Multi"
            /\ walkers' = ws
            /\ di' = d
            /\ stk' = <<<<"visit", Root>>>>
            /\ err' = ""
       ELSE /\ err' = "AssertionError"
            /\ UNCHANGED <<phase, walkers, di, stk>>
    /\ UNCHANGED <<cfg, shell, seed, parent, called, referrers, lint, pstack, marking,
                   out, runs, parses, manual, prev>>

\* the lists of rule instances a client may hand to Multi: the registered
\* rules' instances, at most one of them left out
InstanceLists ==
    {SelectSeq(_all_linters, LAMBDA r : r \in S) :
        S \in {T \in SUBSET Range(_all_linters) :
                  Cardinality(T) >= Len(_all_linters) - 1}}

\* the same source is parsed again, in this process or in a new one: a fresh
\* tree without annotations
Reparse(sd) ==
    /\ phase = "idle"
    /\ parses < MaxParses
    /\ ops < MaxOps
    /\ runs >= 1
    /\ parses' = parses + 1
    /\ seed' = sd
    /\ prev' = [valid |-> (runs = 1 /\ ops = 1 /\ err = ""), di |-> op.di,
                lint |-> lint]
    /\ parent' = [n \in Nodes |-> "unset"]
    /\ called' = [n \in Nodes |-> FALSE]
    /\ referrers' = NoLists
    /\ lint' = NoLists
    /\ runs' = 0
    /\ op' = Op("parse", TRUE, Root, <<>>, <<>>)
    /\ UNCHANGED <<cfg, shell, pstack, marking, phase, stk, di, walkers, log, out, err,
                   ops, manual>>

Next ==
    \/ \E d \in BOOLEAN : Lint(d)
    \/ LintAdvance
    \/ SetParentsStep
    \/ MarkCalledStep
    \/ SetReferrersStep
    \/ MultiStep
    \/ ManualStep
    \/ Collect
    \/ CollectStep
    \/ Return
    \/ \E obj \in Nodes, pos \in ClientPos : ClientAdd(obj, pos)
    \/ \E ws \in InstanceLists, d \in BOOLEAN : ClientMulti(ws, d)
    \/ \E sd \in Seeds : Reparse(sd)

Spec == Init /\ [][Next]_vars

\* the steps of a running operation: the interpreter executes the next
\* statement of the one thread there is
RunStep ==
    \/ LintAdvance
    \/ SetParentsStep
    \/ MarkCalledStep
    \/ SetReferrersStep
    \/ MultiStep
    \/ ManualStep
    \/ CollectStep
    \/ Return

\* the trees that differ in their Call edges: with or without a workflow,
\* which calls the imported workflow zero to MaxSubCalls times
FairInit ==
    /\ Init
    /\ cfg.aux
    /\ cfg.supplied = {}

\* a started operation is not suspended forever
FairSpec == FairInit /\ [][Next]_vars /\ WF_vars(RunStep)

-----------------------------------------------------------------------------
(* CommandShellCheck run by a multiplexer that client code constructs *)

\* the lists of rule instances client code constructs, in order
ShellInstanceLists ==
    {<<"IncompleteCall", "CommandShellCheck", "UnusedImport">>,
     <<"CommandShellCheck">>, <<"IncompleteCall", "UnusedImport">>}

\* the process starts: shellcheck is on the PATH or not, and gives a result
\* for each task's script
ShellInit ==
    /\ cfg \in {c \in Trees : ~c.wf /\ ~c.aux}
    /\ op = Op("none", TRUE, Root, <<>>, <<>>)
    /\ Fresh
    /\ shell \in {sh \in [installed : BOOLEAN, available : {"None"}, spawns : {0},
                          tool : [TaskNodes -> ToolResults], ran : {<<>>}] :
                     ~sh.installed => sh.tool = NoShell.tool}

\* client code constructs the instances of ws and calls
\* Walker.Multi(instances, descend_imports)(doc)
ShellMulti(ws, d) ==
    /\ phase = "idle"
    /\ ops < MaxOps
    /\ op' = Op("shellmulti", d, Root, ws, <<>>)
    /\ ops' = ops + 1
    /\ shell' = IF "CommandShellCheck" \in Range(ws)
                THEN [CommandShellCheck_init(shell) EXCEPT !.ran = <<>>]
                ELSE [shell EXCEPT !.ran = <<>>]
    /\ phase' = "ShellMulti"
    /\ walkers' = ws
    /\ di' = d
    /\ stk' = <<<<"visit", Root>>>>
    /\ log' = <<>>
    /\ err' = ""
    /\ UNCHANGED <<cfg, seed, parent, called, referrers, lint, pstack, marking,
                   out, runs, parses, manual, prev>>

\* one frame of the multiplexer: every instance's hook on the node, in order,
\* then the descent of Base.__call__
ShellMultiStep ==
    /\ phase = "ShellMulti"
    /\ stk # <<>>
    /\ LET n == Head(stk)[2]
           csc == IF Kind[n] = "Task" /\ "CommandShellCheck" \in Range(walkers)
                  THEN CommandShellCheck_task(n, shell)
                  ELSE [reqs |-> <<>>, shell |-> shell]
           hook(w) == IF w = "CommandShellCheck" THEN csc.reqs ELSE Hook(w, n)
           r == ApplyAdds(lint, FlatMap(walkers, hook))
       IN  /\ log' = log \o [i \in 1..Len(walkers) |-> Event(walkers[i], n)]
           /\ shell' = csc.shell
           /\ lint' = r.lint
           /\ err' = r.err
           /\ phase' = IF r.err # "" THEN "idle" ELSE phase
           /\ stk' = IF r.err # "" THEN <<>>
                     ELSE Visits(Gate(Children(n), di)) \o Tail(stk)
    /\ UNCHANGED <<cfg, seed, parent, called, referrers, pstack, marking, di,
                   walkers, out, op, ops, runs, parses, manual, prev>>

\* the multiplexer returns
ShellReturn ==
    /\ phase = "ShellMulti"
    /\ stk = <<>>
    /\ phase' = "idle"
    /\ UNCHANGED <<cfg, shell, seed, parent, called, referrers, lint, pstack,
                   marking, stk, di, walkers, log, out, err, op, ops, runs,
                   parses, manual, prev>>

ShellNext ==
    \/ \E ws \in ShellInstanceLists, d \in BOOLEAN : ShellMulti(ws, d)
    \/ ShellMultiStep
    \/ ShellReturn

ShellSpec == ShellInit /\ [][ShellNext]_vars

-----------------------------------------------------------------------------
(* Walker.Base with its default hooks, called by client code *)

\* Base._descend, called by every default hook: the children it recurses into
Base_descendAlways(obj, auto_descend, descend_imports) ==
    Gate(Children(obj), descend_imports)
Base_descend(obj, auto_descend, descend_imports) ==
    IF ~auto_descend THEN Gate(Children(obj), descend_imports) ELSE <<>>

\* Base.__call__ after the hook returned: the children it recurses into
\* (descend is "None", "True" or "False")
Base_call(obj, descend, auto_descend, descend_imports) ==
    LET dsc == IF descend = "None" THEN auto_descend ELSE descend = "True"
    IN  IF dsc THEN Gate(Children(obj), descend_imports) ELSE <<>>

\* the nodes client code starts a traversal at
StartNodes == {n \in Nodes : Kind[n] \in {"Document", "Workflow", "Task"}}

\* Walker.Base(auto_descend, descend_imports)(obj, descend) is called
Walk(obj, auto_descend, descend_imports, descend) ==
    /\ phase = "idle"
    /\ ops < MaxOps
    /\ obj \notin Absent
    /\ op' = [name |-> "walk", di |-> descend_imports, node |-> obj,
              auto_descend |-> auto_descend, descend |-> descend]
    /\ ops' = ops + 1
    /\ phase' = "Base"
    /\ di' = descend_imports
    /\ stk' = <<<<"visit", obj, descend>>>>
    /\ log' = <<>>
    /\ err' = ""
    /\ UNCHANGED <<cfg, shell, seed, parent, called, referrers, lint, pstack, marking,
                   walkers, out, runs, parses, manual, prev>>

\* one call of the walker on a node: the hook, its _descend, then the
\* dispatcher's own descent; every recursive call passes no descend argument
BaseStep ==
    /\ phase = "Base"
    /\ stk # <<>>
    /\ LET f == Head(stk)
           n == f[2]
           descend == IF Len(f) = 3 THEN f[3] ELSE "None"
       IN  /\ log' = Append(log, Event("Base", n))
           /\ stk' = Visits(Base_descend(n, op.auto_descend, di))
                         \o Visits(Base_call(n, descend, op.auto_descend, di))
                         \o Tail(stk)
    /\ UNCHANGED <<cfg, shell, seed, parent, called, referrers, lint, pstack, marking,
                   phase, di, walkers, out, err, op, ops, runs, parses, manual,
                   prev>>

\* the outermost call returns
WalkReturn ==
    /\ phase = "Base"
    /\ stk = <<>>
    /\ phase' = "idle"
    /\ UNCHANGED <<cfg, shell, seed, parent, called, referrers, lint, pstack, marking,
                   stk, di, walkers, log, out, err, op, ops, runs, parses,
                   manual, prev>>

WalkNext ==
    \/ \E obj \in StartNodes, a \in BOOLEAN, d \in BOOLEAN,
          ds \in {"None", "True", "False"} : Walk(obj, a, d, ds)
    \/ BaseStep
    \/ WalkReturn

WalkSpec == Init /\ [][WalkNext]_vars

-----------------------------------------------------------------------------
(* The coercion rules' tests, applied to the types of an input binding *)

\* nesting depth of the compound types tried
MaxTypeDepth == 2

PrimTypes == {Prim("Int"), Prim("String"), Prim("File"), Prim("Any")}

RECURSIVE TypesUpTo(_)
TypesUpTo(d) ==
    IF d = 0 THEN PrimTypes
    ELSE LET T == TypesUpTo(d - 1)
         IN  PrimTypes \cup {ArrayT(t) : t \in T} \cup {ArrayPlusT(t) : t \in T}
                 \cup {MapT(Prim("String"), t) : t \in T}
                 \cup {PairT(Prim("Int"), t) : t \in T}

\* the type checker accepts an expression of type from where type to is
\* required (quantifiers unchecked)
RECURSIVE Coerces(_, _)
Coerces(from, to) ==
    IF from.k = "Any" \/ to.k = "Any" THEN TRUE
    ELSE IF to.k = "Array"
    THEN IF from.k = "Array" THEN Coerces(from.a[1], to.a[1])
         ELSE Coerces(from, to.a[1])
    ELSE IF to.k \in {"Map", "Pair"}
    THEN /\ from.k = to.k
         /\ Coerces(from.a[1], to.a[1])
         /\ Coerces(from.a[2], to.a[2])
    ELSE IF to.k = "String" THEN from.k \in {"String", "File", "Int"}
    ELSE IF to.k = "File" THEN from.k \in {"File", "String"}
    ELSE from.k = to.k

\* the type-checked input bindings tried: declared type and expression type
Bindings ==
    {[name |-> "binding", decl_type |-> t, expr_type |-> f] :
        <<t, f>> \in {x \in TypesUpTo(MaxTypeDepth) \X TypesUpTo(MaxTypeDepth) :
                        Coerces(x[2], x[1])}}

CoercionInit ==
    /\ cfg \in {c \in Trees : ~c.wf /\ ~c.aux}
    /\ op \in Bindings
    /\ Fresh
    /\ shell = NoShell

\* the four rules' call hooks test the binding
TestBinding ==
    /\ ops = 0
    /\ ops' = 1
    /\ out' = CoercionTests(op.decl_type, op.expr_type)
    /\ UNCHANGED <<cfg, shell, seed, parent, called, referrers, lint, pstack, marking,
                   phase, stk, di, walkers, log, err, op, runs, parses, manual,
                   prev>>

CoercionNext == TestBinding

CoercionSpec == CoercionInit /\ [][CoercionNext]_vars

-----------------------------------------------------------------------------
(* UnusedDeclaration.decl, applied to a declaration and to the same          *)
(* declaration under another name; names are sequences of characters        *)

\* str.lower, on the characters the names tried are written with
Lower(name) ==
    [i \in 1..Len(name) |->
        CASE name[i] = "A" -> "a" [] name[i] = "B" -> "b" [] name[i] = "I" -> "i"
          [] OTHER -> name[i]]

\* str.endswith
EndsWith(name, sfx) ==
    /\ Len(sfx) <= Len(name)
    /\ SubSeq(name, Len(name) - Len(sfx) + 1, Len(name)) = sfx

index_suffixes ==
    << <<"i", "n", "d", "e", "x">>, <<"i", "n", "d", "e", "x", "e", "s">>,
       <<"i", "n", "d", "i", "c", "e", "s">>, <<"i", "d", "x">>,
       <<"t", "b", "i">>, <<"b", "a", "i">>, <<"c", "r", "a", "i">>,
       <<"c", "s", "i">>, <<"f", "a", "i">>, <<"d", "i", "c", "t">> >>

\* sum(1 for sfx in index_suffixes if obj.name.lower().endswith(sfx)) is not 0
IndexName(name) ==
    \E i \in 1..Len(index_suffixes) : EndsWith(Lower(name), index_suffixes[i])

\* pt.meta.get("type") == "native" and pt.meta.get("id"); an absent key and an
\* empty value are both ""
NativeStub(meta) == meta.type = "native" /\ meta.id # ""

\* UnusedDeclaration.decl on a declaration obj: the diagnostics it adds to obj.
\* obj.pt is the kind of the parent, obj.in_outputs whether obj is in
\* pt.outputs, obj.meta the parent's meta section
UnusedDeclaration_declAnyType(obj) ==
    LET is_output == obj.pt \in {"Workflow", "Task"} /\ obj.in_outputs
    IN  IF ~is_output /\ obj.referrers = <<>>
        THEN IF ~(\/ IndexName(obj.name)
                  \/ obj.pt = "Task" /\ NativeStub(obj.meta))
             THEN <<[rule |-> "UnusedDeclaration", text |-> "nothing references",
                     args |-> <<obj.type, obj.name>>]>>
             ELSE <<>>
        ELSE <<>>
UnusedDeclaration_decl(obj) ==
    LET is_output == obj.pt \in {"Workflow", "Task"} /\ obj.in_outputs
    IN  IF ~is_output /\ obj.referrers = <<>>
        THEN IF ~(\/ obj.type.k = "File" /\ IndexName(obj.name)
                  \/ /\ obj.type.k = "Array"
                     /\ obj.type.a[1].k = "File"
                     /\ IndexName(obj.name)
                  \/ obj.pt = "Task" /\ NativeStub(obj.meta))
             THEN <<[rule |-> "UnusedDeclaration", text |-> "nothing references",
                     args |-> <<obj.type, obj.name>>]>>
             ELSE <<>>
        ELSE <<>>

\* the names tried: x alone and x_ followed by an ending
NameEndings ==
    Range(index_suffixes)
        \cup {<<"B", "A", "I">>, <<"b", "a", "i", "x">>, <<"b", "a">>, <<"y">>}
DeclNames == {<<"x">>} \cup {<<"x", "_">> \o e : e \in NameEndings}

DeclTypes ==
    {Prim("Int"), Prim("File"), Prim("String"), ArrayT(Prim("File")),
     ArrayT(Prim("Int")), ArrayT(ArrayT(Prim("File")))}

\* meta sections of the parent task
Metas ==
    {[type |-> "", id |-> ""], [type |-> "native", id |-> ""],
     [type |-> "native", id |-> "applet-1"], [type |-> "other", id |-> "applet-1"]}

\* the declarations tried, as lint's passes have annotated them
Decls ==
    {d \in [type : DeclTypes, name : DeclNames, referrers : {<<>>, <<"id">>},
            pt : {"Task", "Workflow", "Scatter", "Conditional"},
            in_outputs : BOOLEAN, meta : Metas] :
        /\ d.in_outputs => d.pt \in {"Task", "Workflow"}
        /\ d.pt # "Task" => d.meta = [type |-> "", id |-> ""]}

DeclInit ==
    /\ cfg \in {c \in Trees : ~c.wf /\ ~c.aux}
    /\ op \in {[name |-> "decl", obj |-> d, renamed |-> nm] :
                  d \in {x \in Decls : x.name = <<"x">>},
                  nm \in DeclNames \ {<<"x">>}}
    /\ Fresh
    /\ shell = NoShell

\* the rule visits the declaration; the source is edited to rename it, parsed
\* and linted again, and the rule visits the renamed declaration
VisitDecl ==
    /\ ops = 0
    /\ ops' = 1
    /\ out' = [orig |-> UnusedDeclaration_decl(op.obj),
               renamed |-> UnusedDeclaration_decl(
                               [op.obj EXCEPT !.name = op.renamed])]
    /\ UNCHANGED <<cfg, shell, seed, parent, called, referrers, lint, pstack, marking,
                   phase, stk, di, walkers, log, err, op, runs, parses, manual,
                   prev>>

DeclNext == VisitDecl

DeclSpec == DeclInit /\ [][DeclNext]_vars

-----------------------------------------------------------------------------
(* Definitions the properties are stated with *)

\* the nodes below n, n first, in the order of the children enumeration
RECURSIVE PreOrder(_)
PreOrder(n) ==
    <<n>> \o Concat([i \in 1..Len(Children(n)) |-> PreOrder(Children(n)[i])])

Reachable == Range(PreOrder(Root))

\* the nodes of the root document itself: reachable without entering an import
RECURSIVE OwnOrder(_)
OwnOrder(n) ==
    LET chs == SelectSeq(Children(n), LAMBDA ch : Kind[ch] # "Document")
    IN  <<n>> \o Concat([i \in 1..Len(chs) |-> OwnOrder(chs[i])])

ImportedNodes == Reachable \ Range(OwnOrder(Root))

\* The pairs <<node, container>> for the nodes below n: the container of a
\* node is the node whose children enumeration lists it and, for an
\* expression, the nearest node above it that is not an expression (top is
\* that node for n itself).
RECURSIVE ContainersBelow(_, _)
ContainersBelow(n, top) ==
    LET here == IF IsExpr(n) THEN top ELSE n
    IN  UNION {{<<Children(n)[i], here>>} \cup ContainersBelow(Children(n)[i], here) :
                  i \in 1..Len(Children(n))}

Containers == ContainersBelow(Root, Root)

\* a lint run is past its parent-linking pass, or an earlier run on this tree was
Linked ==
    /\ phase # "SetParents"
    /\ runs >= 1 \/ phase \in {"MarkCalled", "SetReferrers", "Multi", "Manual"}

\* likewise for the call-reachability marking pass
Marked ==
    /\ phase # "MarkCalled"
    /\ runs >= 1 \/ phase \in {"SetReferrers", "Multi", "Manual"}

\* likewise for the use-site collection pass
Referred ==
    /\ phase # "SetReferrers"
    /\ runs >= 1 \/ phase \in {"Multi", "Manual"}

Rank(w) ==
    CASE w = "SetParents" -> 1
      [] w = "MarkCalled" -> 2
      [] w = "SetReferrers" -> 3
      [] OTHER -> 4

Logged(w, n) == \E i \in 1..Len(log) : log[i] = Event(w, n)

\* the Calls in the body of a workflow, at any depth
CallsIn(wf) == {c \in Range(PreOrder(wf)) : Kind[c] = "Call"}

\* the top-level workflow and what a path of Call edges reaches from it
RECURSIVE CallClosure(_)
CallClosure(S) ==
    LET T == S \cup {Callee[c] :
                 c \in UNION {CallsIn(x) : x \in {y \in S : Kind[y] = "Workflow"}}}
    IN  IF T = S THEN S ELSE CallClosure(T)

CallReachable == CallClosure(Range(WorkflowOf(Root)))

-----------------------------------------------------------------------------
(* C1: in every lint run the hook invocations are ordered parent-linking,   *)
(* then call-reachability marking, then use-site collection, then the       *)
(* rules; a pass starts only after the passes before it have visited the    *)
(* whole tree (the marking pass: the root document, with its descent from   *)
(* the top-level workflow closed), and a rule hook is invoked only after    *)
(* all three.                                                               *)
C1_PassOrder ==
    LET R == Reachable
        events == Range(log)
        ranks == {Rank(e.w) : e \in events}
        all(w) == \A n \in R : Event(w, n) \in events
    IN  op.name = "lint" =>
        /\ \A i \in 1..(Len(log) - 1) : Rank(log[i].w) <= Rank(log[i + 1].w)
        /\ (\E r \in ranks : r >= 2) => all("SetParents")
        /\ (\E r \in ranks : r >= 3) => Event("MarkCalled", Root) \in events
        /\ (\E r \in ranks : r >= 4) => all("SetReferrers")
        /\ phase \in {"MarkCalled", "SetReferrers", "Multi", "Manual"} =>
              /\ pstack = <<>>
              /\ all("SetParents")
              /\ \A n \in R : parent[n] # "unset"
        /\ phase \in {"SetReferrers", "Multi", "Manual"} =>
              ~marking /\ Event("MarkCalled", Root) \in events
        /\ phase \in {"Multi", "Manual"} => all("SetReferrers")

\* a lint run is in its manual-descend traversal, the hooks of all three passes
\* and of the multiplexed rules logged before it
C1_Witness ==
    /\ op.name = "lint"
    /\ phase = "Manual"
    /\ stk # <<>>
    /\ Logged("SetParents", "lw_q_e1")
    /\ Logged("MarkCalled", "lc")
    /\ Logged("SetReferrers", "w_out_e")
    /\ Logged("ForwardReference", "c1_b")
    /\ Logged("FileCoercion", "t_f")

(* C2: once the parent-linking pass has run, the root document's parent is  *)
(* None and every other reachable node's parent is the node that contains   *)
(* it (for an expression: the tree node that contains it).                  *)
C2_ParentOfEveryNode ==
    Linked =>
        /\ parent[Root] = "None"
        /\ \A pr \in Containers : parent[pr[1]] = pr[2]

\* the pass has run on a tree with both imports, the workflow and all calls
C2_Witness ==
    /\ Linked
    /\ cfg.aux /\ cfg.wf /\ cfg.subcalls = 2 /\ cfg.supplied = {"a", "b"}
    /\ parent["D"] = "None"
    /\ parent["M"] = "L"
    /\ parent["XS"] = "X"
    /\ parent["c3"] = "cd"
    /\ parent["w_out"] = "w"
    /\ parent["t_cmd_id"] = "t"

\* a step of the marking pass, inside the descent from the top-level workflow,
\* takes called from TRUE to FALSE only on a Workflow that a Call's hook is
\* entering again, the frame that marks it TRUE again pending
ResetOnlyOnReentry ==
    \A n \in Nodes :
        (marking /\ called[n] /\ ~called'[n]) =>
            /\ Kind[n] = "Workflow"
            /\ stk # <<>>
            /\ Head(stk) = <<"visit", n>>
            /\ \E i \in 1..Len(stk') :
                  /\ stk'[i][1] = "post"
                  /\ Kind[stk'[i][2]] = "Call"
                  /\ Callee[stk'[i][2]] = n

CalledIffReachable ==
    Marked =>
        LET reached == CallReachable
        IN  \A n \in Reachable :
                Kind[n] \in {"Task", "Workflow"} =>
                    (called[n] <=> n \in reached)

C4_CollectPreOrder ==
    (op.name = "collect" /\ phase = "idle") =>
        LET order == PreOrder(Root)
        IN  out = Concat([i \in 1..Len(order) |-> lint[order[i]]])

\* collect returned after a lint run that left two diagnostics on the call c1
\* (below the workflow) and one on the root document and in the import
C4_Witness ==
    /\ op.name = "collect"
    /\ phase = "idle"
    /\ Len(lint["c1"]) = 2
    /\ Len(lint["D"]) >= 1
    /\ Len(lint["lw_q"]) >= 1
    /\ Len(out) >= 5

(* C5: in a lint run with descend_imports = FALSE no rule hook is invoked   *)
(* on a node of an imported document and no such node's diagnostics list    *)
(* changes; a run with descend_imports = TRUE invokes every rule's hook on  *)
(* every imported document and every auto-descend rule's hook on every node *)
(* of every imported document.                                              *)
NoRuleHookOnImports ==
    (op.name = "lint" /\ ~op.di) =>
        LET imported == ImportedNodes
        IN  \A i \in 1..Len(log) : Rank(log[i].w) = 4 => log[i].n \notin imported

ImportsLintUnchanged ==
    (op.name = "lint" /\ ~op.di /\ op' = op /\ parses' = parses) =>
        \A n \in ImportedNodes : lint'[n] = lint[n]

RulesReachImports ==
    (op.name = "lint" /\ op.di /\ phase = "idle") =>
        LET events == Range(log)
        IN  \A n \in ImportedNodes :
                \A i \in 1..Len(_all_linters) :
                    (AutoDescend[_all_linters[i]] \/ Kind[n] = "Document") =>
                        Event(_all_linters[i], n) \in events

C5_ImportGating ==
    /\ []NoRuleHookOnImports
    /\ [][ImportsLintUnchanged]_vars
    /\ []RulesReachImports

\* a first run without descent into imports has returned: the rules ran on the
\* root document and left a diagnostic there, and none in the import, whose
\* declaration lw_q a run with descent flags
C5_Witness ==
    /\ op.name = "lint"
    /\ ~op.di
    /\ phase = "idle"
    /\ runs = 1
    /\ Logged("UnusedImport", "D")
    /\ Logged("FileCoercion", "t_f")
    /\ ~Logged("UnusedImport", "L")
    /\ lint["D"] # <<>>
    /\ lint["lw_q"] = <<>>

(* C6 (as stated): once the use-site collection pass has run, the referrers *)
(* list of every Decl and Call is exactly the identifier expressions of the *)
(* tree whose referee, Gathers unwrapped, is that node, each once, in       *)
(* traversal order.                                                         *)
C6_ReferrersExact ==
    Referred =>
        LET order == PreOrder(Root)
        IN  \A d \in Range(order) :
                Kind[d] \in {"Decl", "Call"} =>
                    referrers[d] =
                        SelectSeq(order, LAMBDA e : IsIdent(e)
                                                     /\ Unwrap(Referee[e]) = d)

(* C7: an Expression that the parent-linking pass has handled has as parent *)
(* the nearest node above it that is not an Expression, which is a Decl,    *)
(* Call, Scatter, Conditional or Task; after the pass that is so for every  *)
(* Expression at every depth, and no lint run fails in a rule's add on the  *)
(* parent of an Expression.                                                 *)
C7_ExprParent ==
    /\ \A pr \in Containers :
          IsExpr(pr[1]) =>
              /\ Kind[pr[2]] \in {"Decl", "Call", "Scatter", "Conditional", "Task"}
              /\ parent[pr[1]] \in {"unset", pr[2]}
              /\ Linked => parent[pr[1]] = pr[2]
    /\ op.name = "lint" => err = ""

\* a run has returned: expressions nested in expressions, in a call input, in
\* a command placeholder and in the governing position of a scatter and of a
\* conditional are linked, and the forward reference found in the call input
\* c1_b was recorded on the call
C7_Witness ==
    /\ op.name = "lint"
    /\ phase = "idle"
    /\ runs = 1
    /\ parent["w_z_e1"] = "w_z"
    /\ parent["lw_q_e1"] = "lw_q"
    /\ parent["c1_b"] = "c1"
    /\ parent["t_cmd_id"] = "t"
    /\ parent["sc_e"] = "sc"
    /\ parent["cd_e"] = "cd"
    /\ \E i \in 1..Len(lint["c1"]) : lint["c1"][i][2] = "ForwardReference"

(* C8: add on an Expression raises the assertion and changes no node's      *)
(* diagnostics list; add on a tree node appends exactly one entry (the      *)
(* position given or else the node's own, the rule's name, the message) at  *)
(* the end of that node's list and changes no other; no Expression ever     *)
(* carries diagnostics.                                                     *)
AddContract ==
    (ops' = ops + 1 /\ op'.name = "add") =>
        LET obj == op'.node
            pos == IF op'.pos = <<>> THEN Pos[obj] ELSE op'.pos
            message == [text |-> "client", args |-> <<>>, tys |-> <<>>]
        IN  IF IsExpr(obj)
            THEN err' = "AssertionError" /\ lint' = lint
            ELSE /\ err' = ""
                 /\ lint'[obj] = Append(lint[obj], <<pos, "ClientRule", message>>)
                 /\ \A n \in Nodes \ {obj} : lint'[n] = lint[n]

MultiRejectsManual ==
    (ops' = ops + 1 /\ op'.name = "multi" /\ ~Multi_init_ok(op'.ws)) =>
        /\ err' = "AssertionError"
        /\ log' = <<>>
        /\ UNCHANGED <<phase, stk, walkers, lint, parent, called, referrers>>

LintMultiplexesAuto ==
    op.name = "lint" =>
        /\ err # "AssertionError"
        /\ phase = "Multi" =>
              /\ Multi_init_ok(walkers)
              /\ walkers = SelectSeq(_all_linters, LAMBDA r : AutoDescend[r])

C9_MultiAutoOnly ==
    /\ [][MultiRejectsManual]_vars
    /\ [](op.name = "multi" /\ ~Multi_init_ok(op.ws) =>
              err = "AssertionError" /\ log = <<>> /\ phase = "idle")
    /\ []LintMultiplexesAuto

\* client code constructed the multiplexer with the manual-descend rule among
\* the instances
C9_Witness ==
    /\ op.name = "multi"
    /\ \E i \in 1..Len(op.ws) : op.ws[i] = "FileCoercion"
    /\ err = "AssertionError"
    /\ log = <<>>

(* C10 (as stated): a lint run on a fresh parse of the same source, with    *)
(* the same descend_imports, leaves on every node the diagnostics list the  *)
(* run on the earlier parse left.                                           *)
C10_SameDiagnostics ==
    (/\ op.name = "lint"
     /\ phase = "idle"
     /\ err = ""
     /\ prev.valid
     /\ parses = 1
     /\ runs = 1
     /\ op.di = prev.di) => lint = prev.lint

-----------------------------------------------------------------------------
(* Definitions the properties of the rules are stated with *)

\* the first lint run on the current tree has returned
FirstRunDone == op.name = "lint" /\ phase = "idle" /\ runs = 1 /\ err = ""

\* the nodes a hook of the rule was invoked on in the current run
Visited(rule) == {log[i].n : i \in {j \in 1..Len(log) : log[j].w = rule}}

\* the diagnostics of a rule on a node
EntriesOf(n, rule) == SelectSeq(lint[n], LAMBDA e : e[2] = rule)

\* position p starts strictly before position q
Before(p, q) == p[1] < q[1] \/ (p[1] = q[1] /\ p[2] < q[2])

\* the nodes a traversal of the run reaches, in order
RunOrder == IF op.di THEN PreOrder(Root) ELSE OwnOrder(Root)

(* C13: after a lint run on a fresh tree, an identifier the rule visited    *)
(* has exactly one ForwardReference diagnostic, on its parent and with its  *)
(* own position, if its referee (Gathers unwrapped) is a Decl or Call that  *)
(* starts strictly later by line, then column, and none otherwise; the rule *)
(* leaves no other diagnostics.                                             *)
C13_ForwardReference ==
    FirstRunDone =>
        LET seen == {e \in Visited("ForwardReference") : IsIdent(e)}
            fwd(e) == /\ Kind[Unwrap(Referee[e])] \in {"Decl", "Call"}
                      /\ Before(Pos[e], Pos[Unwrap(Referee[e])])
            hits(e) == SelectSeq(EntriesOf(parent[e], "ForwardReference"),
                                 LAMBDA d : d[1] = Pos[e])
            total == Concat([i \in 1..Len(RunOrder) |->
                                EntriesOf(RunOrder[i], "ForwardReference")])
        IN  /\ \A e \in seen : Len(hits(e)) = IF fwd(e) THEN 1 ELSE 0
            /\ Len(total) = Cardinality({e \in seen : fwd(e)})

\* the run flagged the reference to z in the call input c1_b (a later line)
\* and the reference to q in the declaration of p (same line, later column),
\* and not the reference to y through its Gather
C13_Witness ==
    /\ FirstRunDone
    /\ op.di
    /\ Len(EntriesOf("c1", "ForwardReference")) = 1
    /\ EntriesOf("c1", "ForwardReference")[1][1] = Pos["c1_b"]
    /\ Len(EntriesOf("lw_p", "ForwardReference")) = 1
    /\ "w_z_e2" \in Visited("ForwardReference")
    /\ EntriesOf("w_z", "ForwardReference") = <<>>

(* C15: after a lint run on a fresh tree, a Call the rule visited has       *)
(* exactly one IncompleteCall diagnostic if some required input of its      *)
(* callee is not among the input names it supplies, and none otherwise; the *)
(* diagnostic lists each omitted required input once and nothing else.      *)
C15_IncompleteCall ==
    FirstRunDone =>
        \A c \in Visited("IncompleteCall") :
            Kind[c] = "Call" =>
                LET required == {Name[d] : d \in RequiredInputs(Callee[c])}
                    supplied == {InputName[CallInputs(c)[i]] :
                                    i \in 1..Len(CallInputs(c))}
                    omitted == required \ supplied
                    found == EntriesOf(c, "IncompleteCall")
                IN  IF omitted = {}
                    THEN found = <<>>
                    ELSE /\ Len(found) = 1
                         /\ Range(Tail(found[1][3].args)) = omitted
                         /\ Len(Tail(found[1][3].args)) = Cardinality(omitted)

\* the callee t requires a and b and the call c1 supplies only a: one
\* diagnostic, listing b
C15_Witness ==
    /\ FirstRunDone
    /\ cfg.supplied = {"a"}
    /\ Len(EntriesOf("c1", "IncompleteCall")) = 1
    /\ EntriesOf("c1", "IncompleteCall")[1][3].args = <<"t", "b">>

\* the diagnostics UnusedImport left on doc for the import imp
ImportEntries(doc, imp) ==
    SelectSeq(EntriesOf(doc, "UnusedImport"), LAMBDA d : d[3].args = <<Name[imp]>>)

NoneCalled(imp) ==
    /\ \A task \in Range(Tasks(imp)) : ~called[task]
    /\ \A wf \in Range(WorkflowOf(imp)) : ~called[wf]

RuleLog == SelectSeq(log, LAMBDA e : Rank(e.w) = 4)

(* C19: in a lint run the rule hook invocations are, first, one traversal   *)
(* in which every node, in pre-order, gets the hook of every auto-descend   *)
(* instance in registration order before any node below it gets one, and    *)
(* only then the traversals of the manual-descend instances, one instance   *)
(* after the other in registration order, each visiting no node twice.      *)
C19_OneMultiplexedTraversal ==
    op.name = "lint" =>
        LET autos == SelectSeq(_all_linters, LAMBDA r : AutoDescend[r])
            manuals == SelectSeq(_all_linters, LAMBDA r : ~AutoDescend[r])
            order == RunOrder
            rules == RuleLog
            k == Len(order) * Len(autos)
            idx(r) == CHOOSE j \in 1..Len(manuals) : manuals[j] = r
        IN  /\ \A i \in 1..Len(rules) :
                  IF i <= k
                  THEN rules[i] = Event(autos[((i - 1) % Len(autos)) + 1],
                                        order[((i - 1) \div Len(autos)) + 1])
                  ELSE /\ rules[i].w \in Range(manuals)
                       /\ i > k + 1 => idx(rules[i - 1].w) <= idx(rules[i].w)
                       /\ \A j \in (k + 1)..(i - 1) : rules[j] # rules[i]
            /\ phase = "Manual" => Len(rules) >= k
            /\ (phase = "idle" /\ err = "") =>
                  \A j \in 1..Len(manuals) : Event(manuals[j], Root) \in Range(rules)

\* the run returned: the multiplexed traversal visited the call c1 with the
\* three auto-descend rules and the manual-descend rule then made its own
C19_Witness ==
    /\ FirstRunDone
    /\ op.di
    /\ cfg.wf
    /\ \E i \in 1..(Len(log) - 3) :
          /\ log[i] = Event("IncompleteCall", "c1")
          /\ log[i + 1] = Event("UnusedImport", "c1")
          /\ log[i + 2] = Event("ForwardReference", "c1")
    /\ log[Len(log)].w = "FileCoercion"

\* the output declarations of the tasks and the expressions in them
TaskOutputNodes ==
    UNION {Range(PreOrder(o)) :
              o \in UNION {Range(Outputs(t)) :
                              t \in {x \in Reachable : Kind[x] = "Task"}}}

\* the declarations and calls in the workflows the run reaches
WorkflowLevelNodes ==
    {n \in UNION {Range(PreOrder(wf)) :
                     wf \in {x \in Range(RunOrder) : Kind[x] = "Workflow"}} :
        Kind[n] \in {"Decl", "Call"}}

(* C20: no FileCoercion hook is invoked on a task's output declaration or   *)
(* on an expression in one and none of them carries a FileCoercion          *)
(* diagnostic, while the hooks of a task's inputs, post-input declarations, *)
(* command and runtime expressions and of every declaration and call of the *)
(* workflows are invoked in every completed lint run.                       *)
C20_FileCoercionSkipsTaskOutputs ==
    LET outs == TaskOutputNodes
        seen == Visited("FileCoercion")
    IN  /\ seen \cap outs = {}
        /\ \A n \in outs : EntriesOf(n, "FileCoercion") = <<>>
        /\ (op.name = "lint" /\ phase = "idle" /\ err = "") =>
              /\ WorkflowLevelNodes \subseteq seen
              /\ \A t \in Range(RunOrder) :
                    Kind[t] = "Task" =>
                        Range(Inputs(t) \o Postinputs(t) \o Command(t)
                                  \o Runtime(t)) \subseteq seen

\* the run returned: the rule flagged the post-input File f = "s" of task t,
\* visited the workflow's output declaration, and passed over the task's
\* output File o = "out"
C20_Witness ==
    /\ FirstRunDone
    /\ cfg.wf
    /\ Len(EntriesOf("t_f", "FileCoercion")) = 1
    /\ "w_out" \in Visited("FileCoercion")
    /\ "t_rt" \in Visited("FileCoercion")
    /\ "t_o" \notin Visited("FileCoercion")
    /\ lint["t_o"] = <<>>

\* the nodes of the hook invocations of the current traversal, in order
LogNodes == [i \in 1..Len(log) |-> log[i].n]

\* s is an initial part of t
IsPrefix(s, t) == Len(s) <= Len(t) /\ s = SubSeq(t, 1, Len(s))

(* C18: a traversal that client code starts at a node with a walker that    *)
(* keeps the default hooks and descends into imports, passing no descend    *)
(* argument, invokes the hook once on every node below the start node, in   *)
(* pre-order, whether the walker is auto-descend or manual-descend: at any  *)
(* moment the nodes visited so far are an initial part of the pre-order,    *)
(* and all of it when the call has returned.                                *)
C18_EveryNodeOnce ==
    (op.name = "walk" /\ op.di /\ op.descend = "None") =>
        LET order == PreOrder(op.node)
        IN  /\ IsPrefix(LogNodes, order)
            /\ phase = "idle" => LogNodes = order

\* a manual-descend traversal from the root document with the workflow and
\* the imports present has returned, and so has an auto-descend one before it
C18_Witness ==
    /\ op.name = "walk"
    /\ op.di
    /\ op.descend = "None"
    /\ ~op.auto_descend
    /\ op.node = Root
    /\ cfg.wf
    /\ phase = "idle"
    /\ ops = 2
    /\ Len(log) = Len(PreOrder(Root))
    /\ Len(log) > 20

\* the coercion each rule is about, between a required and a supplied type
\* themselves
CoercionAt(rule, to, from) ==
    CASE rule = "StringCoercion" -> to.k = "String" /\ from.k \notin {"String", "Any"}
      [] rule = "FileCoercion" -> to.k = "File" /\ from.k \notin {"File", "Any"}
      [] rule = "ArrayCoercion" -> to.k = "Array" /\ from.k \notin {"Array", "Any"}
      [] rule = "NonemptyCoercion" ->
             to.k = "Array" /\ from.k = "Array" /\ to.nonempty /\ ~from.nonempty

\* the coercion occurs between the two types or between corresponding
\* element types of them, at some depth
RECURSIVE CoercionWithin(_, _, _)
CoercionWithin(rule, to, from) ==
    \/ CoercionAt(rule, to, from)
    \/ /\ to.k = from.k
       /\ \E i \in 1..Len(to.a) : CoercionWithin(rule, to.a[i], from.a[i])

(* C17: each coercion rule reports an input binding whenever the coercion   *)
(* it is about occurs between the declared type and the expression type or  *)
(* between element types nested in them at any depth.                       *)
C17_NestedCoercionsReported ==
    (op.name = "binding" /\ ops = 1) =>
        \A rule \in DOMAIN out :
            CoercionWithin(rule, op.decl_type, op.expr_type) => out[rule]

\* the nested cases the String and File rules do report, and the top-level
\* case the Nonempty rule reports
C17_NestedReportedByStringAndFile ==
    (op.name = "binding" /\ ops = 1) =>
        /\ \A rule \in {"StringCoercion", "FileCoercion"} :
              CoercionWithin(rule, op.decl_type, op.expr_type) => out[rule]
        /\ CoercionAt("NonemptyCoercion", op.decl_type, op.expr_type)
              => out.NonemptyCoercion

\* Array[Array[Int]+] required, Array[Array[Int]] supplied: not reported
C17_NestedNonemptyMissed ==
    /\ op.name = "binding"
    /\ ops = 1
    /\ op.decl_type = ArrayT(ArrayPlusT(Prim("Int")))
    /\ op.expr_type = ArrayT(ArrayT(Prim("Int")))
    /\ ~out.NonemptyCoercion

\* the declaration has no referrers and is not an output of its task/workflow
Unreferenced(d) ==
    d.referrers = <<>> /\ ~(d.pt \in {"Workflow", "Task"} /\ d.in_outputs)

\* exactly one UnusedDeclaration diagnostic, naming the declaration
OneNaming(found, name) ==
    /\ Len(found) = 1
    /\ found[1].rule = "UnusedDeclaration"
    /\ found[1].args[2] = name

(* C14 (as stated): a declaration with no referrers that is not an output   *)
(* gets exactly one UnusedDeclaration diagnostic naming it, and the same    *)
(* declaration renamed, its type unchanged, to a name that ends in an       *)
(* index-file suffix gets none.                                             *)
C14_RenameSuppressesAsStated ==
    (op.name = "decl" /\ ops = 1 /\ Unreferenced(op.obj)) =>
        /\ OneNaming(out.orig, op.obj.name)
        /\ IndexName(op.renamed) => out.renamed = <<>>

(* C14 (amended): a declaration with no referrers that is not an output     *)
(* and whose parent is not a task marked as a native stub (meta type        *)
(* "native" with an id) gets exactly one UnusedDeclaration diagnostic        *)
(* naming it; the same declaration renamed, its type unchanged, to a name   *)
(* that ends in an index-file suffix gets none if its type is File or       *)
(* Array[File], and still exactly one, naming it, if its type is any other. *)
C14_RenameSuppressesFiles ==
    (/\ op.name = "decl"
     /\ ops = 1
     /\ Unreferenced(op.obj)
     /\ ~(op.obj.pt = "Task" /\ NativeStub(op.obj.meta))) =>
        /\ OneNaming(out.orig, op.obj.name)
        /\ IndexName(op.renamed) =>
              IF op.obj.type \in {Prim("File"), ArrayT(Prim("File"))}
              THEN out.renamed = <<>>
              ELSE OneNaming(out.renamed, op.renamed)

\* File x in a workflow, unreferenced: flagged; renamed x_BAI: not flagged
C14_Witness ==
    /\ op.name = "decl"
    /\ ops = 1
    /\ op.obj.type = Prim("File")
    /\ op.obj.pt = "Workflow"
    /\ Unreferenced(op.obj)
    /\ op.renamed = <<"x", "_", "B", "A", "I">>
    /\ OneNaming(out.orig, <<"x">>)
    /\ out.renamed = <<>>

\* the diagnostics of CommandShellCheck on a task that pass on a finding of
\* shellcheck, and those that report that shellcheck could not be used
FindingsOn(task) ==
    SelectSeq(EntriesOf(task, "CommandShellCheck"), LAMBDA d : d[3].text = "SC")
DegradedOn(task) ==
    SelectSeq(EntriesOf(task, "CommandShellCheck"), LAMBDA d : d[3].text # "SC")

(* C11: in a process where the shellcheck binary is absent, no subprocess   *)
(* is ever started and no node ever carries a CommandShellCheck diagnostic, *)
(* however many traversals with the rule are run.                           *)
C11_AbsentNoSpawnNoDiagnostic ==
    ~shell.installed =>
        /\ shell.spawns = 0
        /\ shell.ran = <<>>
        /\ \A n \in TaskNodes : EntriesOf(n, "CommandShellCheck") = <<>>
        /\ err = ""

\* the binary is absent and a second traversal with the rule has visited the
\* tasks of the root and of the imported documents and returned
C11_Witness ==
    /\ ~shell.installed
    /\ shell.available = "False"
    /\ ops = 2
    /\ phase = "idle"
    /\ op.name = "shellmulti"
    /\ \A task \in TaskNodes : Event("CommandShellCheck", task) \in Range(log)

\* shellcheck failed on the task's script: an exit status other than 0 and 1,
\* or output that is not a JSON list of findings
ShellFailed(res) ==
    \/ res.exit \notin {0, 1}
    \/ res.json # "list"
    \/ \E i \in 1..Len(res.items) : ~res.items[i].ok

\* the first traversal of the process has returned
FirstShellRunDone == op.name = "shellmulti" /\ ops = 1 /\ phase = "idle"

(* C12: after a traversal with the rule and an available shellcheck, every  *)
(* task on whose script shellcheck failed carries exactly one diagnostic    *)
(* reporting the failure, the traversal has not raised, every instance's    *)
(* hook was invoked on every node, and the other rules' diagnostics are     *)
(* those their hooks give.                                                  *)
C12_OneDegradedDiagnostic ==
    (FirstShellRunDone /\ shell.available = "True") =>
        /\ \A task \in Range(shell.ran) :
              ShellFailed(shell.tool[task]) => Len(DegradedOn(task)) = 1
        /\ err = ""
        /\ LET order == RunOrder
           IN  /\ Len(log) = Len(order) * Len(walkers)
               /\ \A n \in Range(order) :
                     \A rule \in Range(walkers) \ {"CommandShellCheck"} :
                         Len(EntriesOf(n, rule)) = Len(Hook(rule, n))

\* the same, for the failures other than empty output with exit status 0 or 1
C12_OneDegradedUnlessEmpty ==
    (FirstShellRunDone /\ shell.available = "True") =>
        /\ \A task \in Range(shell.ran) :
              LET res == shell.tool[task]
              IN  /\ (ShellFailed(res) /\ ~(res.exit \in {0, 1} /\ res.json = "empty"))
                        => Len(DegradedOn(task)) = 1
                  /\ ~ShellFailed(res) =>
                        /\ DegradedOn(task) = <<>>
                        /\ Len(FindingsOn(task)) = Len(res.items)
        /\ err = ""
        /\ LET order == RunOrder
           IN  /\ Len(log) = Len(order) * Len(walkers)
               /\ \A n \in Range(order) :
                     \A rule \in Range(walkers) \ {"CommandShellCheck"} :
                         Len(EntriesOf(n, rule)) = Len(Hook(rule, n))

\* shellcheck exits with status 0 and prints nothing for the script of task t:
\* the task carries no diagnostic
C12_EmptyOutputSilent ==
    /\ FirstShellRunDone
    /\ shell.available = "True"
    /\ "t" \in Range(shell.ran)
    /\ shell.tool["t"] = [exit |-> 0, json |-> "empty", items |-> <<>>]
    /\ lint["t"] = <<>>

\* shellcheck exits with status 2 on task t and prints a finding and a
\* malformed item for task lt: one failure diagnostic on each, and the import
\* of lib is still reported on the root document
C12_FailureReported ==
    /\ FirstShellRunDone
    /\ shell.available = "True"
    /\ op.di
    /\ shell.tool["t"].exit = 2
    /\ Len(shell.tool["lt"].items) = 2
    /\ Len(DegradedOn("t")) = 1
    /\ Len(DegradedOn("lt")) = 1
    /\ Len(FindingsOn("lt")) = 1
    /\ Len(EntriesOf("D", "UnusedImport")) = 1

\* the frames of the running walker that are calls of the walker on a node
\* inside one of the given workflows
FramesInside(wfs) ==
    LET inside == UNION {Range(PreOrder(wf)) \ {wf} : wf \in wfs}
    IN  {i \in 1..Len(stk) : stk[i][1] = "visit" /\ stk[i][2] \in inside}

(* C21: while MarkCalled runs in lint, marking is true exactly while the    *)
(* hook of the top-level workflow has started its descent and not yet       *)
(* returned (so it is false when the pass starts and when it ends); the     *)
(* top-level workflow's hook is invoked at most once in the pass and only   *)
(* with marking false; a Call hook is invoked only with marking true; a     *)
(* call of the walker on a node inside a workflow that is not top-level is  *)
(* pending only with marking true; and no assertion fails.                  *)
C21_SingleFlightMarking ==
    (op.name = "lint" /\ phase = "MarkCalled") =>
        LET top == Range(WorkflowOf(Root))
            others == {n \in Reachable : Kind[n] = "Workflow"} \ top
            entries == {i \in 1..Len(log) :
                           log[i].w = "MarkCalled" /\ log[i].n \in top}
        IN  /\ marking <=> \E wf \in top : <<"post", wf>> \in Range(stk)
            /\ Cardinality(entries) <= 1
            /\ stk # <<>> /\ Head(stk)[1] = "visit" =>
                  /\ Head(stk)[2] \in top => ~marking
                  /\ Kind[Head(stk)[2]] = "Call" => marking
            /\ FramesInside(others) # {} => marking
            /\ err = ""

\* the pass is descending from the top-level workflow, has entered the
\* imported workflow lw through the call c2 and is about to invoke the hook
\* of the call lc in it
C21_Witness ==
    /\ op.name = "lint"
    /\ phase = "MarkCalled"
    /\ marking
    /\ stk # <<>>
    /\ Head(stk) = <<"visit", "lc">>
    /\ <<"post", "c2">> \in Range(stk)
    /\ <<"post", "w">> \in Range(stk)

\* a step on the same tree keeps every node's diagnostics as an initial part
\* of its new list
LintOnlyGrows ==
    parses' = parses => \A n \in Nodes : IsPrefix(lint[n], lint'[n])

\* a step of collect changes no diagnostics list and no annotation field
CollectReadsOnly ==
    (op'.name = "collect" /\ parses' = parses) =>
        UNCHANGED <<lint, parent, called, referrers>>

(* C22: over any sequence of lint, collect and client operations on a tree, *)
(* every step leaves each node's diagnostics list as an initial part of the *)
(* new one (entries are only appended), and the steps of collect change no  *)
(* node's diagnostics and no parent, called or referrers field.             *)
C22_AppendOnly == [][LintOnlyGrows /\ CollectReadsOnly]_vars

\* a second lint run on the same tree has returned: the call c1 carries the
\* first run's diagnostics followed by the same diagnostics again
C22_Witness ==
    /\ op.name = "lint"
    /\ phase = "idle"
    /\ runs = 2
    /\ err = ""
    /\ Len(lint["c1"]) >= 2
    /\ Len(lint["c1"]) % 2 = 0
    /\ SubSeq(lint["c1"], 1, Len(lint["c1"]) \div 2)
           = SubSeq(lint["c1"], Len(lint["c1"]) \div 2 + 1, Len(lint["c1"]))

\* collect has returned a non-empty list after a lint run
C22_CollectRan ==
    /\ op.name = "collect"
    /\ phase = "idle"
    /\ runs = 1
    /\ out # <<>>

\* the Call/Scatter/Conditional/Task/Decl hooks of the running pass that have
\* not returned yet, outermost first
OpenContainers ==
    LET open == SelectSeq(stk, LAMBDA f : f[1] = "post"
                                  /\ Kind[f[2]] \in {"Call", "Scatter", "Conditional",
                                                    "Task", "Decl"})
    IN  [i \in 1..Len(open) |-> open[Len(open) + 1 - i][2]]

(* C23: while SetParents runs in lint, its stack holds exactly the Call,    *)
(* Scatter, Conditional, Task and Decl nodes whose hooks have not returned, *)
(* outermost first (every push is undone when the hook returns); it is not  *)
(* empty when an expression's hook reads its top; and it is empty whenever  *)
(* SetParents is not running, in particular when a pass has completed and   *)
(* when the next lint run starts.                                           *)
C23_ParentStackBalanced ==
    /\ (op.name = "lint" /\ phase = "SetParents") =>
          /\ pstack = OpenContainers
          /\ (stk # <<>> /\ Head(stk)[1] = "post" /\ IsExpr(Head(stk)[2]))
                => pstack # <<>>
    /\ phase # "SetParents" => pstack = <<>>
    /\ err # "IndexError"

\* in the second lint run on a tree the pass is inside the scatter and the
\* call c1 and the hook of the call's input expression is about to read the
\* top of the stack
C23_Witness ==
    /\ op.name = "lint"
    /\ phase = "SetParents"
    /\ runs = 1
    /\ pstack = <<"sc", "c1">>
    /\ Head(stk) = <<"post", "c1_a">>

\* the innermost node of one of the kinds that is n or has n below it in the
\* children enumeration ("none" if there is none)
Enclosing(n, kinds) ==
    LET below == [a \in {x \in Reachable : Kind[x] \in kinds} |-> PreOrder(a)]
        around == {a \in DOMAIN below : n \in Range(below[a])}
    IN  IF around = {} THEN "none"
        ELSE CHOOSE a \in around : \A b \in around : Len(below[a]) <= Len(below[b])

(* C24: when a rule's hook is about to be invoked on a Call, Decl, Scatter, *)
(* Workflow or Task of a tree that lint has parent-linked, the upward       *)
(* search for a Document from that node ends on the document that contains  *)
(* it, the search for a Workflow from a Call or from a Decl inside a        *)
(* workflow ends on the enclosing workflow, and the search for a Task or    *)
(* Workflow from a Decl ends on its enclosing task or workflow; no search   *)
(* meets None, a missing parent or a cycle.                                 *)
C24_UpwardSearches ==
    (/\ op.name \in {"lint", "multi"}
     /\ phase \in {"Multi", "Manual"}
     /\ stk # <<>>
     /\ Head(stk)[1] = "visit"
     /\ Kind[Head(stk)[2]] \in {"Call", "Decl", "Scatter", "Workflow", "Task"}) =>
        LET n == Head(stk)[2]
            tw == Enclosing(n, {"Task", "Workflow"})
        IN  /\ NameCollision_doc(parent, n) = Enclosing(n, {"Document"})
            /\ (Kind[n] = "Call" \/ (Kind[n] = "Decl" /\ Kind[tw] = "Workflow"))
                  => UnusedCall_workflow(parent, n) = Enclosing(n, {"Workflow"})
            /\ Kind[n] = "Decl" => UnnecessaryQuantifier_tw(parent, n) = tw

\* the multiplexer is about to invoke the hooks on the declaration y inside
\* the scatter of the root workflow: the searches from it end on the root
\* document and on the workflow w
C24_Witness ==
    /\ op.name = "lint"
    /\ phase = "Multi"
    /\ stk # <<>>
    /\ Head(stk) = <<"visit", "sc_y">>
    /\ NameCollision_doc(parent, "sc_y") = "D"
    /\ UnusedCall_workflow(parent, "sc_y") = "w"
    /\ UnnecessaryQuantifier_tw(parent, "sc_y") = "w"
    /\ NameCollision_doc(parent, "lc") = "L"

\* the Calls of the tree that target the workflow wf
CallsOf(wf) == {c \in Reachable : Kind[c] = "Call" /\ Callee[c] = wf}

\* while the marking pass runs its hook has been invoked on a workflow that
\* is not top-level at most once by the descent from its document and once
\* for every Call that targets it, and exactly that often when the pass ends
MarkingReentersPerCall ==
    (op.name = "lint" /\ phase = "MarkCalled") =>
        \A wf \in {n \in Reachable : Kind[n] = "Workflow"} \ Range(WorkflowOf(Root)) :
            LET visits == Cardinality({i \in 1..Len(log) :
                                         log[i] = Event("MarkCalled", wf)})
                calls == IF WorkflowOf(Root) = <<>> THEN 0
                         ELSE Cardinality(CallsOf(wf))
            IN  /\ visits <= 1 + calls
                /\ stk = <<>> => visits = 1 + calls

\* the hook invocations of a pass or traversal are bounded by the number of
\* nodes, counted once more for every Call that re-enters a workflow
HooksBounded ==
    phase # "idle" =>
        Len(log) <= (4 + Len(_all_linters)) * (1 + MaxSubCalls) * Cardinality(Nodes)

(* C25: every started operation (lint with its three annotation passes, its *)
(* multiplexed traversal and its manual-descend traversals, collect, a      *)
(* client's multiplexer) returns: whenever an operation is running, it      *)
(* eventually is not; the number of hook invocations stays bounded; and the *)
(* marking pass invokes the hook of a workflow that is not top-level once   *)
(* from its document and once more for every Call that targets it.          *)
C25_Terminates ==
    /\ (phase # "idle") ~> (phase = "idle")
    /\ [](MarkingReentersPerCall /\ HooksBounded)

\* the marking pass has ended after entering the imported workflow lw three
\* times: from its document and through the calls c2 and c3
C25_Witness ==
    /\ op.name = "lint"
    /\ phase = "MarkCalled"
    /\ stk = <<>>
    /\ cfg.subcalls = 2
    /\ Cardinality({i \in 1..Len(log) : log[i] = Event("MarkCalled", "lw")}) = 3

====
